---- MODULE Spec2Model ----
(***************************************************************************)
(* Model of the reload middleware (package reload): the filesystem watch   *)
(* loop of WatchDirectories with its debounce timer and reload callback,   *)
(* and the broadcaster (sync.Cond) on which every ServeWS connection       *)
(* blocks in Wait(); and the closure returned by Handle serving a request *)
(* through the response wrapper (newWrapResponseWriter) to the wrapped     *)
(* handler next, which calls its response writer in any order.             *)
(*                                                                         *)
(* Time is counted in ticks; the debounce window is Window ticks.  The     *)
(* watch loop and the timer are prompt: a tick passes only when the event  *)
(* channel is drained and no timer is due.  Connection tasks and the       *)
(* reload callback take arbitrarily long.  The filesystem changes only     *)
(* once the watch loop runs; filepath.Abs does not fail.                   *)
(***************************************************************************)
EXTENDS Integers, Sequences, FiniteSets, TLC

\* ---------------------------------------------------------------- bounds
\* Total number of filesystem operations and watcher errors the environment issues.
MaxOps == 2

\* The debounce window (100ms in the source) in ticks.
Window == 2

\* ---------------------------------------------------------------- paths
\* A path is a sequence of segments; an absolute path starts with "/".
Cwd == <<"/">>

Ui == <<"ui">>
St == <<"/", "st">>

AbsUi == <<"/", "ui">>
PathD == <<"/", "ui", "d">>
PathE == <<"/", "ui", "d", "e">>
PathG == <<"/", "ui", "d", "g">>
PathF == <<"/", "ui", "f">>

\* Every path the model's filesystem can hold; "/" itself always exists.
AllPaths == {AbsUi, St, PathD, PathE, PathG, PathF}

\* Names of directories; every other name is a regular file.
DirNames == {"/", "ui", "st", "d", "e"}

\* The names in lexical order, the order in which WalkDir reads a directory.
NameOrder == <<"d", "e", "f", "g", "st", "ui">>

\* filepath.Abs
Abs(p) == IF Len(p) > 0 /\ p[1] = "/" THEN p ELSE Cwd \o p

\* filepath.Dir of an absolute path
Dir(p) == IF Len(p) <= 2 THEN <<"/">> ELSE SubSeq(p, 1, Len(p) - 1)

\* path.Base
Base(p) == p[Len(p)]

\* fs.DirEntry.IsDir
IsDir(p) == Base(p) \in DirNames

IsPrefix(p, q) == Len(p) <= Len(q) /\ SubSeq(q, 1, Len(p)) = p

\* q is p or lies beneath p
Beneath(p, q) == IsPrefix(Abs(p), Abs(q))

\* os.Lstat succeeds on p in the filesystem fsys
Exists(fsys, p) == Abs(p) = <<"/">> \/ Abs(p) \in fsys

\* A filesystem is a set of existing paths closed under parent.
IsTree(fsys) == \A p \in fsys : Exists(fsys, Dir(p)) /\ IsDir(Dir(p))

\* os.ReadDir: the entries of directory p, sorted by name
ReadDir(fsys, p) ==
    LET names == SelectSeq(NameOrder, LAMBDA n : Abs(Append(p, n)) \in fsys)
    IN  [i \in 1..Len(names) |-> Append(p, names[i])]

RECURSIVE walkDir(_, _)
RECURSIVE walkEntries(_, _)
\* The walk without the d.IsDir() test: files are appended too.
walkDir_Files(fsys, p) == <<p>> \o walkEntries(fsys, ReadDir(fsys, p))

\* filepath.WalkDir below an existing path p with recursiveWalk's callback:
\* directories are appended in lexical order, files are skipped.
walkDir(fsys, p) ==
    IF IsDir(p)
    THEN <<p>> \o walkEntries(fsys, ReadDir(fsys, p))
    ELSE <<>>

walkEntries(fsys, entries) ==
    IF entries = <<>>
    THEN <<>>
    ELSE walkDir(fsys, Head(entries)) \o walkEntries(fsys, Tail(entries))

\* recursiveWalk(path): the directories at and below path, and the error of
\* the walk (the root cannot be read).
recursiveWalk(fsys, p) ==
    IF Exists(fsys, p)
    THEN [res |-> walkDir(fsys, p), err |-> FALSE]
    ELSE [res |-> <<>>, err |-> TRUE]

Range(s) == {s[i] : i \in 1..Len(s)}

\* ---------------------------------------------------------------- HTTP: strings, headers and bodies
\* Reloader.Endpoint as New sets it.
Endpoint == "/reload_ws"

wsCurrentVersion == "1"

\* New sets DisableCaching.
DisableCaching == TRUE

\* http.StatusOK
StatusOK == 200

\* Number of calls the wrapped handler makes on its response writer.
MaxCalls == 3

\* strings.ToLower and strings.TrimSpace on the header tokens that occur.
ToLower(s) ==
    CASE s = "Document" -> "document"
      [] s = "WebSocket" -> "websocket"
      [] s = "Text/Event-Stream" -> "text/event-stream"
      [] s = " Text/HTML" -> " text/html"
      [] s = "Application/XML" -> "application/xml"
      [] OTHER -> s

TrimSpace(s) ==
    CASE s = " text/html" -> "text/html"
      [] s = " */*" -> "*/*"
      [] OTHER -> s

EqualFold(s, t) == ToLower(s) = ToLower(t)

\* A request header: the first Sec-Fetch-Dest and Upgrade values ("" when
\* absent) and the Accept values, each value the sequence of its
\* comma-separated items, each item the sequence of its ";"-separated parts.
\* h.Get("Accept") is "text/event-stream" under case folding.
AcceptIsEventStream(h) ==
    /\ h.accept # <<>>
    /\ Len(h.accept[1]) = 1
    /\ Len(h.accept[1][1]) = 1
    /\ EqualFold(h.accept[1][1][1], "text/event-stream")

\* The classification with the Upgrade test ahead of the Sec-Fetch-Dest test.
expectingDocument_UpgradeFirst(h) ==
    IF EqualFold(h.upgrade, "websocket")
    THEN FALSE
    ELSE IF h.dest # ""
    THEN EqualFold(h.dest, "document")
    ELSE IF AcceptIsEventStream(h)
    THEN FALSE
    ELSE IF Len(h.accept) = 0
    THEN TRUE
    ELSE \E i \in 1..Len(h.accept) : \E j \in 1..Len(h.accept[i]) :
            LET ct == TrimSpace(ToLower(h.accept[i][j][1]))
            IN  \/ ct = "*/*" /\ i = 1 /\ j = 1
                \/ ct \in {"text/html", "application/xhtml+xml", "application/xml"}

\* The classification with the wildcard accepted at any position.
expectingDocument_AnyWildcard(h) ==
    IF h.dest # ""
    THEN EqualFold(h.dest, "document")
    ELSE IF EqualFold(h.upgrade, "websocket")
    THEN FALSE
    ELSE IF AcceptIsEventStream(h)
    THEN FALSE
    ELSE IF Len(h.accept) = 0
    THEN TRUE
    ELSE \E i \in 1..Len(h.accept) : \E j \in 1..Len(h.accept[i]) :
            LET ct == TrimSpace(ToLower(h.accept[i][j][1]))
            IN  ct \in {"*/*", "text/html", "application/xhtml+xml", "application/xml"}

expectingDocument(h) ==
    IF h.dest # ""
    THEN EqualFold(h.dest, "document")
    ELSE IF EqualFold(h.upgrade, "websocket")
    THEN FALSE
    ELSE IF AcceptIsEventStream(h)
    THEN FALSE
    ELSE IF Len(h.accept) = 0
    THEN TRUE
    ELSE \E i \in 1..Len(h.accept) : \E j \in 1..Len(h.accept[i]) :
            LET ct == TrimSpace(ToLower(h.accept[i][j][1]))
            IN  \/ ct = "*/*" /\ i = 1 /\ j = 1
                \/ ct \in {"text/html", "application/xhtml+xml", "application/xml"}

\* Headers of the requests served.
RequestHeaders ==
    { [dest |-> "", upgrade |-> "", accept |-> <<>>],
      [dest |-> "Document", upgrade |-> "", accept |-> <<>>],
      [dest |-> "image", upgrade |-> "", accept |-> << << <<"text/html">> >> >>] }

\* Number of Accept header lines of a request.
MaxAccept == 2

\* Accept header values, split at "," and ";" (strings.Split returns at
\* least one piece, the empty string for an empty value).
AcceptValues ==
    { << <<"text/css">> >>,
      << <<"text/css">>, <<"*/*", "q=0.1">> >>,
      << <<"text/html">>, <<"*/*", "q=0.8">> >>,
      << <<"*/*">> >>,
      << <<" */*">>, <<"image/png">> >>,
      << <<"image/png">>, <<" Text/HTML">> >>,
      << <<"application/xhtml+xml">> >>,
      << <<"Application/XML", "q=0.9">> >>,
      << <<"Text/Event-Stream">> >>,
      << <<"text/event-stream">>, <<"text/css">> >>,
      << <<"">> >> }

RECURSIVE AcceptLines(_)
\* The lists of at most n Accept header lines.
AcceptLines(n) ==
    IF n = 0
    THEN {<<>>}
    ELSE LET shorter == AcceptLines(n - 1)
         IN  shorter \cup {Append(l, v) : l \in shorter, v \in AcceptValues}

\* Request headers given to expectingDocument.
Headers ==
    [dest : {"", "document", "Document", "image"},
     upgrade : {"", "websocket", "WebSocket", "h2c"},
     accept : AcceptLines(MaxAccept)]

\* ---------------------------------------------------------------- the buffering wrapper of WatchAndInject
\* wrapper.Hijack, wrapper.Flush and wrapper.Push on a wrapper whose sink has
\* the optional interfaces wcaps: a failed type assertion is logged and
\* leaves a nil interface value, and the call on it panics.
wrapper_Forward(wcaps, cap) ==
    [logged |-> cap \notin wcaps, forwarded |-> cap \in wcaps,
     panic |-> cap \notin wcaps]

\* ---------------------------------------------------------------- insertScriptIntoHTML
\* A byte buffer is a sequence of characters.  Positions are Go's: the first
\* byte is at 0, src[:k] is the first k bytes and src[k:] the rest.
ClosingBody == <<"<", "/", "b", "o", "d", "y", ">">>
OpeningBody == <<"<", "b", "o", "d", "y">>

\* The script of the claims' example, "<script>S</script>".
ExampleScript ==
    <<"<", "s", "c", "r", "i", "p", "t", ">", "S",
      "<", "/", "s", "c", "r", "i", "p", "t", ">">>

\* Number of fragments an input buffer is built from.
MaxFrags == 3

\* Fragments of HTML: an opening body tag without its '>', a '>', a closing
\* body tag, an element, text and an attribute.
Frags ==
    { OpeningBody, <<">">>, ClosingBody, <<"<", "h", "1", ">">>, <<"x">>,
      <<" ", "c">> }

RECURSIVE Buffers(_)
\* The buffers made of at most n fragments.
Buffers(n) ==
    IF n = 0
    THEN {<<>>}
    ELSE LET shorter == Buffers(n - 1)
         IN  shorter \cup {b \o f : b \in shorter, f \in Frags}

\* Input buffers: the fragment buffers and "<body><h1>x</h1>".
Sources ==
    Buffers(MaxFrags)
        \cup {OpeningBody \o <<">", "<", "h", "1", ">", "x", "<", "/", "h", "1", ">">>}

\* bytes.Index: position of the first occurrence of sep in b, -1 if none.
Index(b, sep) ==
    LET at == {k \in 0..(Len(b) - Len(sep)) : SubSeq(b, k + 1, k + Len(sep)) = sep}
    IN  IF at = {} THEN -1 ELSE CHOOSE k \in at : \A l \in at : k <= l

\* The insertion with the script placed behind the closing tag.
insertScriptIntoHTML_AfterClosing(src, script) ==
    LET index == Index(src, ClosingBody)
        end == index + Len(ClosingBody)
    IN  IF index # -1
        THEN [out |-> SubSeq(src, 1, end) \o script \o SubSeq(src, end + 1, Len(src)),
              panic |-> FALSE]
        ELSE [out |-> src, panic |-> FALSE]

\* insertScriptIntoHTML(src, script): the returned buffer, or a panic when a
\* slice expression is out of range (src[p:] with p > len(src)).
insertScriptIntoHTML(src, script) ==
    LET index == Index(src, ClosingBody)
    IN  IF index # -1
        THEN [out |-> SubSeq(src, 1, index) \o script \o SubSeq(src, index + 1, Len(src)),
              panic |-> FALSE]
        ELSE LET match == OpeningBody
                 index2 == Index(src, match)
                 offset == Index(SubSeq(src, index2 + 1, Len(src)), <<">">>)
                 p == index2 + Len(match) + offset
             IN  IF index2 # -1 /\ offset # -1
                 THEN IF p > Len(src)
                      THEN [out |-> <<>>, panic |-> TRUE]
                      ELSE [out |-> SubSeq(src, 1, p) \o script \o SubSeq(src, p + 1, Len(src)),
                            panic |-> FALSE]
                 ELSE [out |-> src, panic |-> FALSE]

\* A header value and a body are sequences of characters or bytes; the empty
\* sequence is the empty string.
HasPrefix(s, prefix) ==
    Len(s) >= Len(prefix) /\ SubSeq(s, 1, Len(prefix)) = prefix

TextHTML == <<"text/html">>
TextHTMLUtf8 == <<"text/html", "; charset=utf-8">>
TextPlainUtf8 == <<"text/plain", "; charset=utf-8">>
TextCSS == <<"text/css">>

Digits == <<"0", "1", "2", "3", "4", "5", "6", "7", "8", "9">>

IsDigit(c) == \E i \in 1..Len(Digits) : Digits[i] = c

DigitVal(c) == (CHOOSE i \in 1..Len(Digits) : Digits[i] = c) - 1

RECURSIVE ParseDigits(_)
ParseDigits(s) ==
    IF s = <<>>
    THEN 0
    ELSE 10 * ParseDigits(SubSeq(s, 1, Len(s) - 1)) + DigitVal(s[Len(s)])

\* strconv.Atoi on an unsigned decimal: the value, and whether it parsed.
Atoi(s) ==
    IF s # <<>> /\ \A i \in 1..Len(s) : IsDigit(s[i])
    THEN [ok |-> TRUE, val |-> ParseDigits(s)]
    ELSE [ok |-> FALSE, val |-> 0]

\* strconv.Itoa on a natural number.
RECURSIVE Itoa(_)
Itoa(n) ==
    IF n < 10
    THEN <<Digits[n + 1]>>
    ELSE Itoa(n \div 10) \o <<Digits[(n % 10) + 1]>>

\* InjectedScript(endpoint): the script element with the endpoint and the
\* protocol version in the WebSocket URL.
InjectedScript(endpoint) ==
    <<"<script>", endpoint, "?v=", wsCurrentVersion, "</script>">>

\* Bodies the wrapped handler writes: the start of an HTML document, and
\* plain text.
HtmlChunk == <<"<", "h">>
TextChunk == <<"t">>
Chunks == {HtmlChunk, TextChunk}

RECURSIVE SkipSpace(_)
SkipSpace(data) ==
    IF data # <<>> /\ Head(data) = " " THEN SkipSpace(Tail(data)) ELSE data

\* http.DetectContentType as Handle uses it: HTML when the first byte after
\* leading white space opens a tag, plain text otherwise.
DetectContentType(data) ==
    IF SkipSpace(data) # <<>> /\ Head(SkipSpace(data)) = "<"
    THEN TextHTMLUtf8
    ELSE TextPlainUtf8

\* ---------------------------------------------------------------- HTTP: the response sink
\* The optional interfaces of an http.ResponseWriter.
Caps == {"Flusher", "Hijacker", "Pusher", "ReaderFrom"}
ProtoMajors == {1, 2}
StatusCodes == {StatusOK, 404}

NoHeader == [ct |-> <<>>, cl |-> <<>>, cc |-> ""]

\* The response writer the server hands to the handler: its optional
\* interfaces, the header map, the header as sent, the WriteHeader calls it
\* received and the body bytes it accepted.
NewSink(wcaps, protoMajor) ==
    [caps |-> wcaps, proto |-> protoMajor, header |-> NoHeader,
     committed |-> FALSE, status |-> 0, sent |-> NoHeader, calls |-> <<>>,
     body |-> <<>>, hijacked |-> FALSE, flushed |-> FALSE, pushed |-> FALSE]

NoSink == NewSink({}, 1)

\* A response writer for every set of optional interfaces and protocol.
AllSinks == {NewSink(wcaps, p) : wcaps \in SUBSET Caps, p \in ProtoMajors}

\* The response writers of net/http for HTTP/1 and HTTP/2, and a minimal one.
ServerSinks ==
    {NewSink({"Flusher", "Hijacker", "ReaderFrom"}, 1),
     NewSink({"Flusher", "Pusher"}, 2),
     NewSink({}, 1)}

\* The status line and the header map go out once.
Commit(s, code) ==
    IF s.committed \/ s.hijacked
    THEN s
    ELSE [s EXCEPT !.committed = TRUE, !.status = code, !.sent = s.header]

SinkWriteHeader(s, code) ==
    [Commit(s, code) EXCEPT !.calls = Append(@, code)]

\* Write: refused on a hijacked connection and when it would exceed the
\* Content-Length that was sent.
SinkWrite(s, buf) ==
    LET c == Commit(s, StatusOK)
        limit == Atoi(c.sent.cl)
    IN  IF s.hijacked \/ (limit.ok /\ Len(c.body) + Len(buf) > limit.val)
        THEN [s |-> c, n |-> 0]
        ELSE [s |-> [c EXCEPT !.body = @ \o buf], n |-> Len(buf)]

SinkReadFrom(s, data) == SinkWrite(s, data)

SinkFlush(s) == [Commit(s, StatusOK) EXCEPT !.flushed = TRUE]

SinkHijack(s) == [s EXCEPT !.hijacked = TRUE]

SinkPush(s) == [s EXCEPT !.pushed = TRUE]

\* ---------------------------------------------------------------- HTTP: the response wrapper
\* No wrapper: the request is not wrapped.
NoWrap ==
    [type |-> "none", scriptSize |-> 0, wroteHeader |-> FALSE, code |-> 0,
     bytes |-> 0, tee |-> <<>>, hasTee |-> FALSE]

\* newWrapResponseWriter with every variant given the capabilities of the
\* sink, whatever the protocol.
newWrapResponseWriter_Full(wcaps, protoMajor, scriptSize) ==
    [NoWrap EXCEPT !.scriptSize = scriptSize,
                   !.type = IF wcaps = {} THEN "basicWriter" ELSE "httpFancyWriter"]

\* newWrapResponseWriter: the variant chosen for a sink with the optional
\* interfaces wcaps.
newWrapResponseWriter(wcaps, protoMajor, scriptSize) ==
    LET fl == "Flusher" \in wcaps
        ps == "Pusher" \in wcaps
        hj == "Hijacker" \in wcaps
        rf == "ReaderFrom" \in wcaps
        bw == [NoWrap EXCEPT !.type = "basicWriter", !.scriptSize = scriptSize]
    IN  IF protoMajor = 2 /\ fl /\ ps
        THEN [bw EXCEPT !.type = "http2FancyWriter"]
        ELSE IF protoMajor # 2 /\ fl /\ hj /\ rf
        THEN [bw EXCEPT !.type = "httpFancyWriter"]
        ELSE IF protoMajor # 2 /\ fl /\ hj
        THEN [bw EXCEPT !.type = "flushHijackWriter"]
        ELSE IF protoMajor # 2 /\ hj
        THEN [bw EXCEPT !.type = "hijackWriter"]
        ELSE IF fl
        THEN [bw EXCEPT !.type = "flushWriter"]
        ELSE bw

\* The optional interfaces each variant implements.
MethodSet(type) ==
    CASE type = "flushWriter" -> {"Flusher"}
      [] type = "hijackWriter" -> {"Hijacker"}
      [] type = "flushHijackWriter" -> {"Flusher", "Hijacker"}
      [] type = "httpFancyWriter" -> {"Flusher", "Hijacker", "ReaderFrom"}
      [] type = "http2FancyWriter" -> {"Flusher", "Pusher"}
      [] OTHER -> {}

\* wrap.Tee(body)
Tee(b) == [b EXCEPT !.hasTee = TRUE, !.tee = <<>>]

\* WriteHeader forwarding every call.
basicWriter_WriteHeader_Always(b, s, code) ==
    [b |-> [b EXCEPT !.code = code, !.wroteHeader = TRUE],
     s |-> SinkWriteHeader(s, code),
     n |-> 0]

\* basicWriter.WriteHeader: make room for the script in a numeric
\* Content-Length of an HTML response, then forward the first call.
basicWriter_WriteHeader(b, s, code) ==
    LET cl == Atoi(s.header.cl)
        headers == IF /\ s.header.cl # <<>>
                      /\ HasPrefix(s.header.ct, TextHTML)
                      /\ cl.ok
                   THEN [s.header EXCEPT !.cl = Itoa(cl.val + b.scriptSize)]
                   ELSE s.header
        adjusted == [s EXCEPT !.header = headers]
    IN  IF ~b.wroteHeader
        THEN [b |-> [b EXCEPT !.code = code, !.wroteHeader = TRUE],
              s |-> SinkWriteHeader(adjusted, code),
              n |-> 0]
        ELSE [b |-> b, s |-> adjusted, n |-> 0]

maybeWriteHeader(b, s) ==
    IF ~b.wroteHeader
    THEN basicWriter_WriteHeader(b, s, StatusOK)
    ELSE [b |-> b, s |-> s, n |-> 0]

\* Write copying the whole buffer to the tee.
basicWriter_Write_TeeAll(b, s, buf) ==
    LET h == maybeWriteHeader(b, s)
        wr == SinkWrite(h.s, buf)
    IN  [b |-> [h.b EXCEPT !.tee = IF h.b.hasTee THEN @ \o buf ELSE @,
                           !.bytes = @ + wr.n],
         s |-> wr.s,
         n |-> wr.n]

\* basicWriter.Write: the bytes the sink accepted go to the tee.
basicWriter_Write(b, s, buf) ==
    LET h == maybeWriteHeader(b, s)
        wr == SinkWrite(h.s, buf)
    IN  [b |-> [h.b EXCEPT !.tee = IF h.b.hasTee
                                   THEN @ \o SubSeq(buf, 1, wr.n)
                                   ELSE @,
                           !.bytes = @ + wr.n],
         s |-> wr.s,
         n |-> wr.n]

\* Flush that leaves wroteHeader alone.
flushWriter_Flush_NoMark(b, s) == [b |-> b, s |-> SinkFlush(s), n |-> 0]

\* Flush of flushWriter, flushHijackWriter, httpFancyWriter and
\* http2FancyWriter.
flushWriter_Flush(b, s) ==
    [b |-> [b EXCEPT !.wroteHeader = TRUE], s |-> SinkFlush(s), n |-> 0]

\* Hijack of hijackWriter, flushHijackWriter and httpFancyWriter.
hijackWriter_Hijack(b, s) == [b |-> b, s |-> SinkHijack(s), n |-> 0]

http2FancyWriter_Push(b, s) == [b |-> b, s |-> SinkPush(s), n |-> 0]

\* httpFancyWriter.ReadFrom: through Write when a tee is set (io.Copy into
\* the basicWriter), else the sink's own ReadFrom.
httpFancyWriter_ReadFrom(b, s, data) ==
    IF b.hasTee
    THEN LET c == basicWriter_Write(b, s, data)
         IN  [c EXCEPT !.b.bytes = @ + c.n]
    ELSE LET h == maybeWriteHeader(b, s)
             rd == SinkReadFrom(h.s, data)
         IN  [b |-> [h.b EXCEPT !.bytes = @ + rd.n], s |-> rd.s, n |-> rd.n]

\* ---------------------------------------------------------------- HTTP: the closure returned by Handle
\* Every request routed to the wrapped handler.
Route_NoEndpoint(path, h) ==
    IF ~expectingDocument(h) THEN "pass" ELSE "wrap"

\* Where the closure sends a request: ServeWS, next with the sink itself, or
\* next with the wrapper.
Route(path, h) ==
    IF path = Endpoint
    THEN "ws"
    ELSE IF ~expectingDocument(h)
    THEN "pass"
    ELSE "wrap"

scriptToInject == InjectedScript(Endpoint)

\* The content type Handle decides on after next has returned.
ContentType(s, body) ==
    IF s.header.ct = <<>> THEN DetectContentType(body) ELSE s.header.ct

\* The script written whatever the content type.
Inject_Always(s, body) ==
    [s |-> SinkWrite(s, scriptToInject).s, wrote |-> TRUE]

\* After next.ServeHTTP(wrap, r): the script is written to the sink when the
\* content type starts with text/html.
Inject(s, body) ==
    IF HasPrefix(ContentType(s, body), TextHTML)
    THEN [s |-> SinkWrite(s, scriptToInject).s, wrote |-> TRUE]
    ELSE [s |-> s, wrote |-> FALSE]

\* No request yet.
NoRequest ==
    [phase |-> "none", path |-> "", route |-> "", calls |-> 0,
     nextCalls |-> 0, wsCalls |-> 0, injected |-> FALSE]

\* What the wrapped handler asked for: the bytes of its writes that were
\* accepted, the status of its first WriteHeader or Write, the status of the
\* call that sent the header, and the Content-Type, Content-Length and
\* Cache-Control it had
\* set when the header was sent.
NoRef ==
    [body |-> <<>>, first |-> 0, status |-> 0, ct |-> <<>>, cl |-> <<>>,
     cc |-> ""]

\* ---------------------------------------------------------------- state
VARIABLES
    directories,    \* Reloader.directories: the configured roots
    onReloadSet,    \* Reloader.OnReload != nil
    startedWatcher, \* Reloader.startedWatcher
    fs,             \* the filesystem: the set of existing paths
    nops,           \* number of environment operations issued so far
    wpc,            \* position of the WatchDirectories task
    ri,             \* index of the root the start-up loop is at
    w,              \* the fsnotify watcher: "none", "open", "nil", "closed"
    watched,        \* the watcher's watch set (absolute paths)
    events,         \* w.Events: events not yet consumed by the watch loop
    werrs,          \* w.Errors: errors not yet consumed by the watch loop
    errlog,         \* kinds of messages written through logError
    timer,          \* the debounce timer
    cb,             \* reload callbacks in progress, by position
    signals,        \* number of times the debounce timer fired
    nOnReloadDone,  \* number of OnReload calls that have returned
    nBroadcast,     \* number of cond.Broadcast calls
    quiet,          \* ticks since the last debounce call (saturating)
    quietEv,        \* ticks since the last create/write event was consumed
    bursts,         \* bursts of debounced events: [lo, hi]
    evBursts,       \* bursts of consumed create/write events: [lo, hi]
    pc,             \* position of each connection's ServeWS task
    notified,       \* the connection's waiter has been woken by Broadcast
    mu,             \* holder of cond.L
    wire,           \* frames the server wrote on the connection
    bcastSince,     \* a Broadcast was issued since the handshake completed
    createdSince,   \* a file was created in a watched root since the handshake
    req,            \* the request the closure returned by Handle is serving
    sink,           \* the http.ResponseWriter of that request
    wrap,           \* the wrapResponseWriter of that request
    ref,            \* what the wrapped handler asked its response writer for
    call,           \* the latest call of expectingDocument or insertScriptIntoHTML
    peer,           \* each connection's client: its script version, and whether it closed
    tab,            \* a browser tab running the injected script
    hpc,            \* position of each task calling Handle
    nWatchers       \* number of WatchDirectories tasks started

vars == <<directories, onReloadSet, startedWatcher, fs, nops, wpc, ri, w,
          watched, events, werrs, errlog, timer, cb, signals, nOnReloadDone,
          nBroadcast, quiet, quietEv, bursts, evBursts, pc, notified, mu,
          wire, bcastSince, createdSince, req, sink, wrap, ref, call, peer,
          tab, hpc, nWatchers>>

cfgVars == <<directories, onReloadSet>>
httpVars == <<req, sink, wrap, ref>>
chanVars == <<events, werrs>>
timeVars == <<timer, quiet, quietEv, bursts, evBursts>>
cbVars == <<cb, signals, nOnReloadDone, nBroadcast>>
connVars == <<pc, notified, mu, wire, bcastSince, createdSince>>

\* The notification connections (browser tabs).
Conns == {"c1", "c2"}

\* Tasks that call Handle on the one Reloader.
Callers == {"t1", "t2"}

\* Number of times the tab loads the page, and of connection attempts the
\* script makes on one page.
MaxLoads == 5
MaxAttempts == 5

\* No page loaded in the tab.  A loaded page has sockets that are connecting
\* or open, each made by listen(false) or listen(true), pending setTimeout
\* timers, and the last event its script handled; up tells whether the
\* server can be reached.
NoTab ==
    [page |-> "none", up |-> TRUE, conn |-> [isRetry \in BOOLEAN |-> 0],
     open |-> [isRetry \in BOOLEAN |-> 0], timers |-> 0, loads |-> 0,
     attempts |-> 0, ev |-> "none", isRetry |-> FALSE]

Ops == {"Create", "Write", "Rename", "Remove"}

\* fsnotify.Event.Has
Has(e, op) == op \in e.op

Stopped == [armed |-> FALSE, remaining |-> 0, path |-> ""]

NoCallbacks == [onreload |-> 0, broadcast |-> 0]

\* Positions of a connection whose handshake has completed.
PostHandshake == {"upgraded", "locked", "parked", "relocked", "woken", "sent"}

\* The process is running: no task has panicked.
Alive == wpc # "panic"

\* New(directories...) and the state of the world before Handle is called
InitState ==
    /\ directories \in {<<>>, <<Ui, St>>}
    /\ onReloadSet \in BOOLEAN
    /\ startedWatcher = FALSE
    /\ fs \in {t \in SUBSET AllPaths : IsTree(t)}
    /\ nops = 0
    /\ wpc = "idle"
    /\ ri = 1
    /\ w = "none"
    /\ watched = {}
    /\ events = <<>>
    /\ werrs = 0
    /\ errlog = {}
    /\ timer = Stopped
    /\ cb = NoCallbacks
    /\ signals = 0
    /\ nOnReloadDone = 0
    /\ nBroadcast = 0
    /\ quiet = Window + 1
    /\ quietEv = Window + 1
    /\ bursts = [lo |-> 0, hi |-> 0]
    /\ evBursts = [lo |-> 0, hi |-> 0]
    /\ pc = [c \in Conns |-> "none"]
    /\ notified = [c \in Conns |-> FALSE]
    /\ mu = "free"
    /\ wire = [c \in Conns |-> <<>>]
    /\ bcastSince = [c \in Conns |-> FALSE]
    /\ createdSince = [c \in Conns |-> FALSE]
    /\ req = NoRequest
    /\ sink = NoSink
    /\ wrap = NoWrap
    /\ ref = NoRef
    /\ peer = [c \in Conns |-> [v |-> wsCurrentVersion, closed |-> FALSE]]
    /\ tab = NoTab
    /\ hpc = [t \in Callers |-> "idle"]
    /\ nWatchers = 0

\* The state after New: no function has been called.
Init == InitState /\ call = [fn |-> "none"]

\* ---------------------------------------------------------------- Handle
\* Handle(next): starts the watcher task once.
Handle ==
    /\ Alive
    /\ ~startedWatcher
    /\ startedWatcher' = TRUE
    /\ nWatchers' = nWatchers + 1
    /\ wpc' = "new"
    /\ UNCHANGED <<cfgVars, call, peer, tab, hpc, httpVars, fs, nops, ri, w, watched, chanVars, errlog,
                   timeVars, cbVars, connVars>>

\* Handle called by task t: the test of reload.startedWatcher.
Handle_Check(t) ==
    /\ Alive
    /\ hpc[t] = "idle"
    /\ hpc' = [hpc EXCEPT ![t] = IF startedWatcher THEN "done" ELSE "go"]
    /\ UNCHANGED <<cfgVars, call, peer, tab, nWatchers, httpVars, startedWatcher, fs,
                   nops, wpc, ri, w, watched, chanVars, errlog, timeVars, cbVars,
                   connVars>>

\* Handle called by task t: go reload.WatchDirectories() and
\* reload.startedWatcher = true.  The first task started is the watcher
\* followed here; a further one is only counted.
Handle_Go(t) ==
    /\ Alive
    /\ hpc[t] = "go"
    /\ hpc' = [hpc EXCEPT ![t] = "done"]
    /\ nWatchers' = nWatchers + 1
    /\ startedWatcher' = TRUE
    /\ wpc' = IF wpc = "idle" THEN "new" ELSE wpc
    /\ UNCHANGED <<cfgVars, call, peer, tab, httpVars, fs, nops, ri, w, watched,
                   chanVars, errlog, timeVars, cbVars, connVars>>

\* ---------------------------------------------------------------- WatchDirectories: start-up
\* The empty-list check.
WatchDirectories_NoDirectories ==
    /\ wpc = "new"
    /\ Len(directories) = 0
    /\ errlog' = errlog \cup {"no directories"}
    /\ wpc' = "returned"
    /\ UNCHANGED <<cfgVars, call, peer, tab, hpc, nWatchers, httpVars, startedWatcher, fs, nops, ri, w, watched,
                   chanVars, timeVars, cbVars, connVars>>

\* fsnotify.NewWatcher(): it succeeds, or fails and leaves w nil; the
\* function goes on in both cases.
WatchDirectories_NewWatcher ==
    /\ wpc = "new"
    /\ Len(directories) > 0
    /\ \E ok \in BOOLEAN :
        /\ w' = IF ok THEN "open" ELSE "nil"
        /\ errlog' = IF ok THEN errlog ELSE errlog \cup {"new watcher"}
    /\ wpc' = "walk"
    /\ ri' = 1
    /\ UNCHANGED <<cfgVars, call, peer, tab, hpc, nWatchers, httpVars, startedWatcher, fs, nops, watched, chanVars,
                   timeVars, cbVars, connVars>>

\* One iteration of the loop over reload.directories: walk the root and add
\* every directory found, as an absolute path.  A failed walk returns; the
\* deferred w.Close() drops every watch.  Any call on a nil watcher panics.
WatchDirectories_Walk ==
    /\ wpc = "walk"
    /\ LET walk == recursiveWalk(fs, directories[ri])
       IN  IF w = "nil"
           THEN /\ wpc' = "panic"
                /\ errlog' = IF walk.err THEN errlog \cup {"walk"} ELSE errlog
                /\ UNCHANGED <<ri, w, watched>>
           ELSE IF walk.err
           THEN /\ errlog' = errlog \cup {"walk"}
                /\ w' = "closed"
                /\ watched' = {}
                /\ wpc' = "returned"
                /\ UNCHANGED ri
           ELSE /\ watched' = watched \cup {Abs(d) : d \in Range(walk.res)}
                /\ ri' = ri + 1
                /\ wpc' = IF ri = Len(directories) THEN "loop" ELSE "walk"
                /\ UNCHANGED <<w, errlog>>
    /\ UNCHANGED <<cfgVars, call, peer, tab, hpc, nWatchers, httpVars, startedWatcher, fs, nops, chanVars, timeVars,
                   cbVars, connVars>>

\* ---------------------------------------------------------------- the filesystem and the watcher's channels
\* Paths the environment creates, writes, removes and renames.
Mutable == {PathD, PathE, PathG, PathF}

\* The watcher reports an operation on p when p's directory is watched.
Deliver(evs, ws, p, op) ==
    IF Dir(p) \in ws THEN Append(evs, [name |-> p, op |-> {op}]) ELSE evs

EnvReady == Alive /\ wpc = "loop" /\ nops < MaxOps

\* A file or directory is created (os.Create, os.Mkdir).
FsCreate ==
    /\ EnvReady
    /\ \E p \in Mutable \ fs :
        /\ Exists(fs, Dir(p))
        /\ fs' = fs \cup {p}
        /\ events' = Deliver(events, watched, p, "Create")
        /\ createdSince' =
             [c \in Conns |->
                 \/ createdSince[c]
                 \/ /\ pc[c] \in PostHandshake
                    /\ ~IsDir(p)
                    /\ Dir(p) \in watched
                    /\ Dir(p) \in {Abs(d) : d \in Range(directories)}]
    /\ nops' = nops + 1
    /\ UNCHANGED <<cfgVars, call, peer, tab, hpc, nWatchers, httpVars, startedWatcher, wpc, ri, w, watched, werrs,
                   errlog, timeVars, cbVars, pc, notified, mu, wire,
                   bcastSince>>

\* A regular file is written.
FsWrite ==
    /\ EnvReady
    /\ \E p \in Mutable \cap fs :
        /\ ~IsDir(p)
        /\ events' = Deliver(events, watched, p, "Write")
    /\ nops' = nops + 1
    /\ UNCHANGED <<cfgVars, call, peer, tab, hpc, nWatchers, httpVars, startedWatcher, fs, wpc, ri, w, watched, werrs,
                   errlog, timeVars, cbVars, connVars>>

\* A file or an empty directory is removed.
FsRemove ==
    /\ EnvReady
    /\ \E p \in Mutable \cap fs :
        /\ \A q \in fs : IsPrefix(p, q) => q = p
        /\ fs' = fs \ {p}
        /\ events' = Deliver(events, watched, p, "Remove")
    /\ nops' = nops + 1
    /\ UNCHANGED <<cfgVars, call, peer, tab, hpc, nWatchers, httpVars, startedWatcher, wpc, ri, w, watched, werrs,
                   errlog, timeVars, cbVars, connVars>>

\* A file or a directory with everything beneath it is renamed to a place
\* outside the watched roots.
FsRename ==
    /\ EnvReady
    /\ \E p \in Mutable \cap fs :
        /\ fs' = {q \in fs : ~IsPrefix(p, q)}
        /\ events' = Deliver(events, watched, p, "Rename")
    /\ nops' = nops + 1
    /\ UNCHANGED <<cfgVars, call, peer, tab, hpc, nWatchers, httpVars, startedWatcher, wpc, ri, w, watched, werrs,
                   errlog, timeVars, cbVars, connVars>>

\* The watcher reports an error on w.Errors.
WatcherError ==
    /\ EnvReady
    /\ werrs' = werrs + 1
    /\ nops' = nops + 1
    /\ UNCHANGED <<cfgVars, call, peer, tab, hpc, nWatchers, httpVars, startedWatcher, fs, wpc, ri, w, watched, events,
                   errlog, timeVars, cbVars, connVars>>

\* ---------------------------------------------------------------- WatchDirectories: the watch loop
\* debounce that leaves a pending timer running to its old deadline.
debounce_KeepDeadline(name) ==
    IF timer.armed
    THEN [timer EXCEPT !.path = name]
    ELSE [armed |-> TRUE, remaining |-> Window, path |-> name]

\* debounce(f): stop the pending timer and start a new one of a full window.
debounce(name) == [armed |-> TRUE, remaining |-> Window, path |-> name]

\* The switch with debounce called in the rename/remove case too.
OnEvent_RenameDebounces(e, ws, fsys) ==
    IF Has(e, "Create")
    THEN LET dir == Dir(e.name)
         IN  IF ~Exists(fsys, dir)
             THEN [watched |-> ws, debounce |-> FALSE, err |-> TRUE]
             ELSE [watched |-> ws \cup {dir}, debounce |-> TRUE, err |-> FALSE]
    ELSE IF Has(e, "Write")
    THEN [watched |-> ws, debounce |-> TRUE, err |-> FALSE]
    ELSE IF Has(e, "Rename") \/ Has(e, "Remove")
    THEN [watched |-> (ws \ Range(recursiveWalk(fsys, e.name).res)) \ {e.name},
          debounce |-> TRUE, err |-> FALSE]
    ELSE [watched |-> ws, debounce |-> FALSE, err |-> FALSE]

\* The switch on the event: the watch set afterwards, whether debounce is
\* called, and whether w.Add failed.
OnEvent(e, ws, fsys) ==
    IF Has(e, "Create")
    THEN LET dir == Dir(e.name)
         IN  IF ~Exists(fsys, dir)
             THEN [watched |-> ws, debounce |-> FALSE, err |-> TRUE]
             ELSE [watched |-> ws \cup {dir}, debounce |-> TRUE, err |-> FALSE]
    ELSE IF Has(e, "Write")
    THEN [watched |-> ws, debounce |-> TRUE, err |-> FALSE]
    ELSE IF Has(e, "Rename") \/ Has(e, "Remove")
    THEN [watched |-> (ws \ Range(recursiveWalk(fsys, e.name).res)) \ {e.name},
          debounce |-> FALSE, err |-> FALSE]
    ELSE [watched |-> ws, debounce |-> FALSE, err |-> FALSE]

\* Bookkeeping for the coalescing properties, kept beside the debounce
\* calls: the burst counters after an event that comes gap ticks after the previous
\* one: a gap longer than the window starts a burst, a shorter one does not,
\* a gap of exactly one window may or may not.
NextBursts(b, gap) ==
    [lo |-> b.lo + (IF gap > Window THEN 1 ELSE 0),
     hi |-> b.hi + (IF gap >= Window THEN 1 ELSE 0)]

\* case e := <-w.Events
WatchDirectories_Event ==
    /\ Alive
    /\ wpc = "loop"
    /\ events # <<>>
    /\ LET e == Head(events)
           out == OnEvent(e, watched, fs)
       IN  /\ events' = Tail(events)
           /\ watched' = out.watched
           /\ errlog' = IF out.err THEN errlog \cup {"add"} ELSE errlog
           /\ IF out.debounce
              THEN /\ timer' = debounce(Base(e.name))
                   /\ bursts' = NextBursts(bursts, quiet)
                   /\ quiet' = 0
              ELSE UNCHANGED <<timer, bursts, quiet>>
           /\ IF Has(e, "Create") \/ Has(e, "Write")
              THEN /\ evBursts' = NextBursts(evBursts, quietEv)
                   /\ quietEv' = 0
              ELSE UNCHANGED <<evBursts, quietEv>>
    /\ UNCHANGED <<cfgVars, call, peer, tab, hpc, nWatchers, httpVars, startedWatcher, fs, nops, wpc, ri, w, werrs,
                   cbVars, connVars>>

\* The error case leaving the loop instead of going round it again.
WatchDirectories_Error_Returns ==
    /\ Alive
    /\ wpc = "loop"
    /\ werrs > 0
    /\ werrs' = werrs - 1
    /\ errlog' = errlog \cup {"watching"}
    /\ wpc' = "returned"
    /\ UNCHANGED <<cfgVars, call, peer, tab, hpc, nWatchers, httpVars, startedWatcher, fs, nops, ri, w, watched,
                   events, timeVars, cbVars, connVars>>

\* case err := <-w.Errors
WatchDirectories_Error ==
    /\ Alive
    /\ wpc = "loop"
    /\ werrs > 0
    /\ werrs' = werrs - 1
    /\ errlog' = errlog \cup {"watching"}
    /\ UNCHANGED <<cfgVars, call, peer, tab, hpc, nWatchers, httpVars, startedWatcher, fs, nops, wpc, ri, w, watched,
                   events, timeVars, cbVars, connVars>>

\* ---------------------------------------------------------------- time, the debounce timer and the reload callback
Saturate(n) == IF n > Window THEN Window + 1 ELSE n

\* One tick passes.
Tick ==
    /\ Alive
    /\ events = <<>>
    /\ ~(timer.armed /\ timer.remaining = 0)
    /\ timer' = IF timer.armed
                THEN [timer EXCEPT !.remaining = timer.remaining - 1]
                ELSE timer
    /\ quiet' = Saturate(quiet + 1)
    /\ quietEv' = Saturate(quietEv + 1)
    /\ UNCHANGED <<cfgVars, call, peer, tab, hpc, nWatchers, httpVars, startedWatcher, fs, nops, wpc, ri, w, watched,
                   chanVars, errlog, bursts, evBursts, cbVars, connVars>>

\* The callback with Broadcast issued without calling OnReload.
callback_SkipOnReload(c) == [c EXCEPT !.broadcast = c.broadcast + 1]

\* The callback's first position: inside OnReload when it is set, at
\* Broadcast otherwise.
callback(c) ==
    IF onReloadSet
    THEN [c EXCEPT !.onreload = c.onreload + 1]
    ELSE [c EXCEPT !.broadcast = c.broadcast + 1]

\* The timer expires: callback(path)() starts on its own goroutine, logs and
\* calls OnReload when it is set.
callback_Start ==
    /\ Alive
    /\ timer.armed
    /\ timer.remaining = 0
    /\ timer' = Stopped
    /\ signals' = signals + 1
    /\ cb' = callback(cb)
    /\ UNCHANGED <<cfgVars, call, peer, tab, hpc, nWatchers, httpVars, startedWatcher, fs, nops, wpc, ri, w, watched,
                   chanVars, errlog, quiet, quietEv, bursts, evBursts,
                   nOnReloadDone, nBroadcast, connVars>>

\* reload.OnReload() returns.
callback_OnReloadReturn ==
    /\ Alive
    /\ cb.onreload > 0
    /\ cb' = [onreload |-> cb.onreload - 1, broadcast |-> cb.broadcast + 1]
    /\ nOnReloadDone' = nOnReloadDone + 1
    /\ UNCHANGED <<cfgVars, call, peer, tab, hpc, nWatchers, httpVars, startedWatcher, fs, nops, wpc, ri, w, watched,
                   chanVars, errlog, timeVars, signals, nBroadcast, connVars>>

\* Broadcast as Signal: only one waiter is woken.
Broadcast_Signal(n) ==
    LET waiting == {c \in Conns : pc[c] = "parked" /\ ~n[c]}
    IN  IF waiting = {}
        THEN n
        ELSE [n EXCEPT ![CHOOSE c \in waiting : TRUE] = TRUE]

\* sync.Cond.Broadcast: every waiter on the notify list is woken.
Broadcast(n) == [c \in Conns |-> n[c] \/ pc[c] = "parked"]

\* reload.cond.Broadcast()
callback_Broadcast ==
    /\ Alive
    /\ cb.broadcast > 0
    /\ cb' = [cb EXCEPT !.broadcast = cb.broadcast - 1]
    /\ nBroadcast' = nBroadcast + 1
    /\ notified' = Broadcast(notified)
    /\ bcastSince' = [c \in Conns |-> bcastSince[c] \/ pc[c] \in PostHandshake]
    /\ UNCHANGED <<cfgVars, call, peer, tab, hpc, nWatchers, httpVars, startedWatcher, fs, nops, wpc, ri, w, watched,
                   chanVars, errlog, timeVars, signals, nOnReloadDone, pc, mu,
                   wire, createdSince>>

\* ---------------------------------------------------------------- ServeWS and Wait
connRest == <<cfgVars, call, peer, tab, hpc, nWatchers, httpVars, startedWatcher, fs, nops, wpc, ri, w, watched,
              chanVars, timeVars, cbVars>>

\* Versions of the injected script that ask for the endpoint ("v" in the URL).
Versions == {"0", wsCurrentVersion}

\* ServeWS returning on a version mismatch.
ServeWS_Begin_Reject(c, v) ==
    /\ Alive
    /\ startedWatcher
    /\ pc[c] = "none"
    /\ pc' = [pc EXCEPT ![c] = IF v # wsCurrentVersion THEN "none" ELSE "serve"]
    /\ errlog' = IF v # wsCurrentVersion THEN errlog \cup {"version"} ELSE errlog
    /\ peer' = [peer EXCEPT ![c] = [v |-> v, closed |-> FALSE]]
    /\ wire' = [wire EXCEPT ![c] = <<>>]
    /\ bcastSince' = [bcastSince EXCEPT ![c] = FALSE]
    /\ createdSince' = [createdSince EXCEPT ![c] = FALSE]
    /\ UNCHANGED <<cfgVars, call, tab, hpc, nWatchers, httpVars, startedWatcher, fs,
                   nops, wpc, ri, w, watched, chanVars, timeVars, cbVars, notified, mu>>

\* A client opens a connection to the endpoint with script version v: the
\* handler returned by Handle calls ServeWS, which reports a version other
\* than wsCurrentVersion and goes on to the upgrade.
ServeWS_Begin(c, v) ==
    /\ Alive
    /\ startedWatcher
    /\ pc[c] = "none"
    /\ pc' = [pc EXCEPT ![c] = "serve"]
    /\ errlog' = IF v # wsCurrentVersion THEN errlog \cup {"version"} ELSE errlog
    /\ peer' = [peer EXCEPT ![c] = [v |-> v, closed |-> FALSE]]
    /\ wire' = [wire EXCEPT ![c] = <<>>]
    /\ bcastSince' = [bcastSince EXCEPT ![c] = FALSE]
    /\ createdSince' = [createdSince EXCEPT ![c] = FALSE]
    /\ UNCHANGED <<cfgVars, call, tab, hpc, nWatchers, httpVars, startedWatcher, fs,
                   nops, wpc, ri, w, watched, chanVars, timeVars, cbVars, notified, mu>>

\* A browser tab running the current script opens a connection.
Dial(c) == ServeWS_Begin(c, wsCurrentVersion)

\* The client closes its end of an upgraded connection (the tab is closed or
\* navigates away).  ServeWS never reads from the connection, so nothing in
\* the server changes.
ClientClose(c) ==
    /\ Alive
    /\ pc[c] \in PostHandshake
    /\ ~peer[c].closed
    /\ peer' = [peer EXCEPT ![c].closed = TRUE]
    /\ UNCHANGED <<cfgVars, call, tab, hpc, nWatchers, httpVars, startedWatcher, fs,
                   nops, wpc, ri, w, watched, chanVars, errlog, timeVars, cbVars,
                   connVars>>

\* reload.Upgrader.Upgrade: the handshake completes, or fails and ServeWS
\* returns.
ServeWS_Upgrade(c) ==
    /\ Alive
    /\ pc[c] = "serve"
    /\ \E ok \in BOOLEAN :
        /\ pc' = [pc EXCEPT ![c] = IF ok THEN "upgraded" ELSE "none"]
        /\ errlog' = IF ok THEN errlog ELSE errlog \cup {"upgrade"}
    /\ UNCHANGED <<connRest, notified, mu, wire, bcastSince, createdSince>>

\* Wait: reload.cond.L.Lock()
Wait_Lock(c) ==
    /\ Alive
    /\ pc[c] = "upgraded"
    /\ mu = "free"
    /\ mu' = c
    /\ pc' = [pc EXCEPT ![c] = "locked"]
    /\ UNCHANGED <<connRest, errlog, notified, wire, bcastSince, createdSince>>

\* Wait: reload.cond.Wait() joins the notify list and unlocks cond.L.
Wait_Park(c) ==
    /\ Alive
    /\ pc[c] = "locked"
    /\ mu' = "free"
    /\ notified' = [notified EXCEPT ![c] = FALSE]
    /\ pc' = [pc EXCEPT ![c] = "parked"]
    /\ UNCHANGED <<connRest, errlog, wire, bcastSince, createdSince>>

\* Wait: reload.cond.Wait() is woken and locks cond.L again.
Wait_Wake(c) ==
    /\ Alive
    /\ pc[c] = "parked"
    /\ notified[c]
    /\ mu = "free"
    /\ mu' = c
    /\ notified' = [notified EXCEPT ![c] = FALSE]
    /\ pc' = [pc EXCEPT ![c] = "relocked"]
    /\ UNCHANGED <<connRest, errlog, wire, bcastSince, createdSince>>

\* Wait: reload.cond.L.Unlock(), and Wait returns.
Wait_Unlock(c) ==
    /\ Alive
    /\ pc[c] = "relocked"
    /\ mu' = "free"
    /\ pc' = [pc EXCEPT ![c] = "woken"]
    /\ UNCHANGED <<connRest, errlog, notified, wire, bcastSince, createdSince>>

\* WriteMessage placed before the call of Wait.
ServeWS_WriteMessage_BeforeWait(c) ==
    /\ Alive
    /\ pc[c] = "upgraded"
    /\ wire' = [wire EXCEPT ![c] = Append(wire[c], "reload")]
    /\ pc' = [pc EXCEPT ![c] = "sent"]
    /\ UNCHANGED <<connRest, errlog, notified, mu, bcastSince, createdSince>>

\* conn.WriteMessage(websocket.TextMessage, []byte("reload"))
ServeWS_WriteMessage(c) ==
    /\ Alive
    /\ pc[c] = "woken"
    /\ wire' = [wire EXCEPT ![c] = Append(wire[c], "reload")]
    /\ pc' = [pc EXCEPT ![c] = "sent"]
    /\ UNCHANGED <<connRest, errlog, notified, mu, bcastSince, createdSince>>

\* conn.Close(), and ServeWS returns.
ServeWS_Close(c) ==
    /\ Alive
    /\ pc[c] = "sent"
    /\ wire' = [wire EXCEPT ![c] = Append(wire[c], "close")]
    /\ pc' = [pc EXCEPT ![c] = "none"]
    /\ UNCHANGED <<connRest, errlog, notified, mu, bcastSince, createdSince>>

\* ---------------------------------------------------------------- HTTP: requests and the wrapped handler
\* The closure without the Cache-Control header.
ServeHTTP_NoCacheControl(sinks) ==
    /\ Alive
    /\ startedWatcher
    /\ req.phase # "next"
    /\ \E path \in {Endpoint, "/"}, h \in RequestHeaders, s \in sinks :
        LET route == Route(path, h)
            wcaps == s.caps
            protoMajor == s.proto
        IN  /\ req' = [NoRequest EXCEPT
                          !.phase = IF route = "ws" THEN "ws" ELSE "next",
                          !.path = path,
                          !.route = route,
                          !.nextCalls = IF route = "ws" THEN 0 ELSE 1,
                          !.wsCalls = IF route = "ws" THEN 1 ELSE 0]
            /\ sink' = s
            /\ wrap' = IF route = "wrap"
                       THEN Tee(newWrapResponseWriter(wcaps, protoMajor,
                                                      Len(scriptToInject)))
                       ELSE NoWrap
            /\ ref' = NoRef
            /\ IF route = "ws"
               THEN \E c \in Conns :
                       /\ pc[c] = "none"
                       /\ pc' = [pc EXCEPT ![c] = "serve"]
                       /\ wire' = [wire EXCEPT ![c] = <<>>]
                       /\ bcastSince' = [bcastSince EXCEPT ![c] = FALSE]
                       /\ createdSince' = [createdSince EXCEPT ![c] = FALSE]
               ELSE UNCHANGED <<pc, wire, bcastSince, createdSince>>
    /\ UNCHANGED <<cfgVars, call, peer, tab, hpc, nWatchers, startedWatcher, fs, nops, wpc, ri, w, watched,
                   chanVars, errlog, timeVars, cbVars, notified, mu>>

\* The closure wrapping every request that is not for the endpoint.
ServeHTTP_WrapAlways(sinks) ==
    /\ Alive
    /\ startedWatcher
    /\ req.phase # "next"
    /\ \E path \in {Endpoint, "/"}, h \in RequestHeaders, s \in sinks :
        LET route == Route(path, h)
            wcaps == s.caps
            protoMajor == s.proto
        IN  /\ req' = [NoRequest EXCEPT
                          !.phase = IF route = "ws" THEN "ws" ELSE "next",
                          !.path = path,
                          !.route = route,
                          !.nextCalls = IF route = "ws" THEN 0 ELSE 1,
                          !.wsCalls = IF route = "ws" THEN 1 ELSE 0]
            /\ sink' = IF route # "ws" /\ DisableCaching
                       THEN [s EXCEPT !.header.cc = "no-cache"]
                       ELSE s
            /\ wrap' = IF route # "ws"
                       THEN Tee(newWrapResponseWriter(wcaps, protoMajor,
                                                      Len(scriptToInject)))
                       ELSE NoWrap
            /\ ref' = NoRef
            /\ IF route = "ws"
               THEN \E c \in Conns :
                       /\ pc[c] = "none"
                       /\ pc' = [pc EXCEPT ![c] = "serve"]
                       /\ wire' = [wire EXCEPT ![c] = <<>>]
                       /\ bcastSince' = [bcastSince EXCEPT ![c] = FALSE]
                       /\ createdSince' = [createdSince EXCEPT ![c] = FALSE]
               ELSE UNCHANGED <<pc, wire, bcastSince, createdSince>>
    /\ UNCHANGED <<cfgVars, call, peer, tab, hpc, nWatchers, startedWatcher, fs, nops, wpc, ri, w, watched,
                   chanVars, errlog, timeVars, cbVars, notified, mu>>

\* The closure returned by Handle receives a request with one of the given
\* response writers: the endpoint goes to ServeWS, anything else to next,
\* wrapped when a document is expected.
ServeHTTP(sinks) ==
    /\ Alive
    /\ startedWatcher
    /\ req.phase # "next"
    /\ \E path \in {Endpoint, "/"}, h \in RequestHeaders, s \in sinks :
        LET route == Route(path, h)
            wcaps == s.caps
            protoMajor == s.proto
        IN  /\ req' = [NoRequest EXCEPT
                          !.phase = IF route = "ws" THEN "ws" ELSE "next",
                          !.path = path,
                          !.route = route,
                          !.nextCalls = IF route = "ws" THEN 0 ELSE 1,
                          !.wsCalls = IF route = "ws" THEN 1 ELSE 0]
            /\ sink' = IF route = "wrap" /\ DisableCaching
                       THEN [s EXCEPT !.header.cc = "no-cache"]
                       ELSE s
            /\ wrap' = IF route = "wrap"
                       THEN Tee(newWrapResponseWriter(wcaps, protoMajor,
                                                      Len(scriptToInject)))
                       ELSE NoWrap
            /\ ref' = NoRef
            /\ IF route = "ws"
               THEN \E c \in Conns :
                       /\ pc[c] = "none"
                       /\ pc' = [pc EXCEPT ![c] = "serve"]
                       /\ wire' = [wire EXCEPT ![c] = <<>>]
                       /\ bcastSince' = [bcastSince EXCEPT ![c] = FALSE]
                       /\ createdSince' = [createdSince EXCEPT ![c] = FALSE]
               ELSE UNCHANGED <<pc, wire, bcastSince, createdSince>>
    /\ UNCHANGED <<cfgVars, call, peer, tab, hpc, nWatchers, startedWatcher, fs, nops, wpc, ri, w, watched,
                   chanVars, errlog, timeVars, cbVars, notified, mu>>

\* The wrapped handler is running and may call its response writer.
Calling == Alive /\ req.phase = "next" /\ req.calls < MaxCalls

Wrapped == req.route = "wrap"

\* The response writer next was given implements the optional interface.
Implements(cap) ==
    IF Wrapped THEN cap \in MethodSet(wrap.type) ELSE cap \in sink.caps

\* The wrapper's type assertion on the sink fails.
AssertionFails(cap) == Wrapped /\ cap \notin sink.caps

httpRest == <<cfgVars, call, peer, tab, hpc, nWatchers, startedWatcher, fs, nops, wpc, ri, w, watched,
              chanVars, errlog, timeVars, cbVars, connVars>>

\* The state after a call of next on its response writer with outcome out.
Called(out) ==
    /\ req' = [req EXCEPT !.calls = @ + 1]
    /\ wrap' = out.b
    /\ sink' = out.s

\* next sets Content-Type or Content-Length in the header map.
next_SetHeader ==
    /\ Calling
    /\ \/ \E v \in {TextHTMLUtf8, TextCSS} :
            /\ sink' = [sink EXCEPT !.header.ct = v]
            /\ ref' = IF sink.committed THEN ref ELSE [ref EXCEPT !.ct = v]
       \/ \E v \in {<<"2">>, <<"x">>} :
            /\ sink' = [sink EXCEPT !.header.cl = v]
            /\ ref' = IF sink.committed THEN ref ELSE [ref EXCEPT !.cl = v]
       \/ /\ sink' = [sink EXCEPT !.header.cc = "max-age=60"]
          /\ ref' = IF sink.committed THEN ref ELSE [ref EXCEPT !.cc = "max-age=60"]
    /\ req' = [req EXCEPT !.calls = @ + 1]
    /\ UNCHANGED <<httpRest, wrap>>

next_WriteHeader ==
    /\ Calling
    /\ \E code \in StatusCodes :
        /\ Called(IF Wrapped
                  THEN basicWriter_WriteHeader(wrap, sink, code)
                  ELSE [b |-> wrap, s |-> SinkWriteHeader(sink, code), n |-> 0])
        /\ ref' = [ref EXCEPT !.first = IF @ = 0 THEN code ELSE @,
                              !.status = IF @ = 0 THEN code ELSE @]
    /\ UNCHANGED httpRest

next_Write ==
    /\ Calling
    /\ \E buf \in Chunks :
        LET out == IF Wrapped
                   THEN basicWriter_Write(wrap, sink, buf)
                   ELSE [b |-> wrap, s |-> SinkWrite(sink, buf).s,
                         n |-> SinkWrite(sink, buf).n]
        IN  /\ Called(out)
            /\ ref' = [ref EXCEPT !.body = @ \o SubSeq(buf, 1, out.n),
                                  !.first = IF @ = 0 THEN StatusOK ELSE @,
                                  !.status = IF @ = 0 THEN StatusOK ELSE @]
    /\ UNCHANGED httpRest

next_ReadFrom ==
    /\ Calling
    /\ Implements("ReaderFrom")
    /\ IF AssertionFails("ReaderFrom") /\ ~wrap.hasTee
       THEN /\ req' = [req EXCEPT !.phase = "panic"]
            /\ UNCHANGED <<sink, wrap, ref>>
       ELSE \E data \in Chunks :
            LET out == IF Wrapped
                       THEN httpFancyWriter_ReadFrom(wrap, sink, data)
                       ELSE [b |-> wrap, s |-> SinkReadFrom(sink, data).s,
                             n |-> SinkReadFrom(sink, data).n]
            IN  /\ Called(out)
                /\ ref' = [ref EXCEPT !.body = @ \o SubSeq(data, 1, out.n),
                                      !.first = IF @ = 0 THEN StatusOK ELSE @,
                                      !.status = IF @ = 0 THEN StatusOK ELSE @]
    /\ UNCHANGED httpRest

next_Flush ==
    /\ Calling
    /\ Implements("Flusher")
    /\ IF AssertionFails("Flusher")
       THEN /\ req' = [req EXCEPT !.phase = "panic"]
            /\ UNCHANGED <<sink, wrap, ref>>
       ELSE /\ Called(IF Wrapped
                      THEN flushWriter_Flush(wrap, sink)
                      ELSE [b |-> wrap, s |-> SinkFlush(sink), n |-> 0])
            /\ ref' = [ref EXCEPT !.status = IF @ = 0 THEN StatusOK ELSE @]
    /\ UNCHANGED httpRest

next_Hijack ==
    /\ Calling
    /\ Implements("Hijacker")
    /\ IF AssertionFails("Hijacker")
       THEN /\ req' = [req EXCEPT !.phase = "panic"]
            /\ UNCHANGED <<sink, wrap>>
       ELSE Called(IF Wrapped
                   THEN hijackWriter_Hijack(wrap, sink)
                   ELSE [b |-> wrap, s |-> SinkHijack(sink), n |-> 0])
    /\ UNCHANGED <<httpRest, ref>>

next_Push ==
    /\ Calling
    /\ Implements("Pusher")
    /\ IF AssertionFails("Pusher")
       THEN /\ req' = [req EXCEPT !.phase = "panic"]
            /\ UNCHANGED <<sink, wrap>>
       ELSE Called(IF Wrapped
                   THEN http2FancyWriter_Push(wrap, sink)
                   ELSE [b |-> wrap, s |-> SinkPush(sink), n |-> 0])
    /\ UNCHANGED <<httpRest, ref>>

\* next returns: Handle injects the script into a wrapped HTML response, and
\* the server sends the header if nothing has sent it.
ServeHTTP_Return ==
    /\ Alive
    /\ req.phase = "next"
    /\ LET out == IF Wrapped
                  THEN Inject(sink, wrap.tee)
                  ELSE [s |-> sink, wrote |-> FALSE]
       IN  /\ sink' = Commit(out.s, StatusOK)
           /\ req' = [req EXCEPT !.phase = "done", !.injected = out.wrote]
    /\ UNCHANGED <<httpRest, wrap, ref>>

\* ---------------------------------------------------------------- the specification
Next ==
    \/ Handle
    \/ WatchDirectories_NoDirectories
    \/ WatchDirectories_NewWatcher
    \/ WatchDirectories_Walk
    \/ WatchDirectories_Event
    \/ WatchDirectories_Error
    \/ FsCreate
    \/ FsWrite
    \/ FsRemove
    \/ FsRename
    \/ WatcherError
    \/ Tick
    \/ callback_Start
    \/ callback_OnReloadReturn
    \/ callback_Broadcast
    \/ \E c \in Conns : Dial(c)
    \/ \E c \in Conns : ServeWS_Upgrade(c)
    \/ \E c \in Conns : Wait_Lock(c)
    \/ \E c \in Conns : Wait_Park(c)
    \/ \E c \in Conns : Wait_Wake(c)
    \/ \E c \in Conns : Wait_Unlock(c)
    \/ \E c \in Conns : ServeWS_WriteMessage(c)
    \/ \E c \in Conns : ServeWS_Close(c)

Spec == Init /\ [][Next]_vars

\* The watcher and the filesystem alone: no connection is opened.
NextWatch ==
    \/ Handle
    \/ WatchDirectories_NoDirectories
    \/ WatchDirectories_NewWatcher
    \/ WatchDirectories_Walk
    \/ WatchDirectories_Event
    \/ WatchDirectories_Error
    \/ FsCreate
    \/ FsWrite
    \/ FsRemove
    \/ FsRename
    \/ WatcherError
    \/ Tick
    \/ callback_Start
    \/ callback_OnReloadReturn
    \/ callback_Broadcast

SpecWatch == Init /\ [][NextWatch]_vars

\* The notification path: both roots exist and are empty.
InitServe ==
    /\ Init
    /\ directories = <<Ui, St>>
    /\ fs = {AbsUi, St}

\* The notification path while files are created and written.
NextServe ==
    \/ Handle
    \/ WatchDirectories_NewWatcher
    \/ WatchDirectories_Walk
    \/ WatchDirectories_Event
    \/ FsCreate
    \/ FsWrite
    \/ Tick
    \/ callback_Start
    \/ callback_OnReloadReturn
    \/ callback_Broadcast
    \/ \E c \in Conns : Dial(c)
    \/ \E c \in Conns : ServeWS_Upgrade(c)
    \/ \E c \in Conns : Wait_Lock(c)
    \/ \E c \in Conns : Wait_Park(c)
    \/ \E c \in Conns : Wait_Wake(c)
    \/ \E c \in Conns : Wait_Unlock(c)
    \/ \E c \in Conns : ServeWS_WriteMessage(c)
    \/ \E c \in Conns : ServeWS_Close(c)

SpecServe == InitServe /\ [][NextServe]_vars

\* OnReload is set.
InitJoin == InitServe /\ onReloadSet = TRUE

\* A handler task calls Wait() while a callback is running OnReload.
Wait_Lock_DuringOnReload(c) == cb.onreload > 0 /\ Wait_Lock(c)

\* The notification path when every handler task calls Wait() while a
\* callback is running OnReload.
NextJoin ==
    \/ Handle
    \/ WatchDirectories_NewWatcher
    \/ WatchDirectories_Walk
    \/ WatchDirectories_Event
    \/ FsCreate
    \/ FsWrite
    \/ Tick
    \/ callback_Start
    \/ callback_OnReloadReturn
    \/ callback_Broadcast
    \/ \E c \in Conns : Dial(c)
    \/ \E c \in Conns : ServeWS_Upgrade(c)
    \/ \E c \in Conns : Wait_Lock_DuringOnReload(c)
    \/ \E c \in Conns : Wait_Park(c)
    \/ \E c \in Conns : Wait_Wake(c)
    \/ \E c \in Conns : Wait_Unlock(c)
    \/ \E c \in Conns : ServeWS_WriteMessage(c)
    \/ \E c \in Conns : ServeWS_Close(c)

SpecJoin == InitJoin /\ [][NextJoin]_vars

\* ---------------------------------------------------------------- requests through the middleware
InitHTTP == InitServe /\ onReloadSet = FALSE

NextHTTP ==
    \/ Handle
    \/ ServeHTTP(ServerSinks)
    \/ next_SetHeader
    \/ next_WriteHeader
    \/ next_Write
    \/ next_ReadFrom
    \/ next_Flush
    \/ next_Hijack
    \/ next_Push
    \/ ServeHTTP_Return

SpecHTTP == InitHTTP /\ [][NextHTTP]_vars

\* next sets Content-Type and Content-Length together before it writes the
\* header, as http.FileServer does for a file it serves.
next_SetContentHeaders ==
    /\ Calling
    /\ \E ct \in {TextHTMLUtf8, TextCSS}, cl \in {<<"2">>, <<"x">>} :
        /\ sink' = [sink EXCEPT !.header.ct = ct, !.header.cl = cl]
        /\ ref' = IF sink.committed THEN ref ELSE [ref EXCEPT !.ct = ct, !.cl = cl]
    /\ req' = [req EXCEPT !.calls = @ + 1]
    /\ UNCHANGED <<httpRest, wrap>>

\* A handler that serves a file of known type and length.
NextLength ==
    \/ Handle
    \/ ServeHTTP(ServerSinks)
    \/ next_SetContentHeaders
    \/ next_WriteHeader
    \/ next_Write
    \/ ServeHTTP_Return

SpecLength == InitHTTP /\ [][NextLength]_vars

\* ---------------------------------------------------------------- the wrapper over every response writer
\* The calls of next that go through an optional interface.
NextWrap ==
    \/ Handle
    \/ ServeHTTP(AllSinks)
    \/ next_ReadFrom
    \/ next_Flush
    \/ next_Hijack
    \/ next_Push
    \/ ServeHTTP_Return

SpecWrap == InitHTTP /\ [][NextWrap]_vars

\* Two tasks call Handle at once.
NextStart ==
    \/ \E t \in Callers : Handle_Check(t)
    \/ \E t \in Callers : Handle_Go(t)
    \/ WatchDirectories_NewWatcher
    \/ WatchDirectories_Walk

SpecStart == Init /\ [][NextStart]_vars

\* Clients of either script version that may go away, while a file of a
\* watched directory is written.
InitWS ==
    /\ Init
    /\ directories = <<Ui, St>>
    /\ onReloadSet = FALSE
    /\ fs = {AbsUi, St, PathF}

NextWS ==
    \/ Handle
    \/ WatchDirectories_NewWatcher
    \/ WatchDirectories_Walk
    \/ WatchDirectories_Event
    \/ FsWrite
    \/ Tick
    \/ callback_Start
    \/ callback_Broadcast
    \/ \E c \in Conns, v \in Versions : ServeWS_Begin(c, v)
    \/ \E c \in Conns : ClientClose(c)
    \/ \E c \in Conns : ServeWS_Upgrade(c)
    \/ \E c \in Conns : Wait_Lock(c)
    \/ \E c \in Conns : Wait_Park(c)
    \/ \E c \in Conns : Wait_Wake(c)
    \/ \E c \in Conns : Wait_Unlock(c)
    \/ \E c \in Conns : ServeWS_WriteMessage(c)
    \/ \E c \in Conns : ServeWS_Close(c)

SpecWS == InitWS /\ [][NextWS]_vars

\* ---------------------------------------------------------------- the injected script
\* retry with no reconnect scheduled.
retry_Never(t) == t

\* retry(): setTimeout(() => listen(true), 1000)
retry(t) == [t EXCEPT !.timers = @ + 1]

\* window.location.reload(), and the first load: the page with its sockets
\* and timers is dropped and the script of the new page runs listen(false).
reload(t) ==
    [NoTab EXCEPT !.page = "loaded", !.up = t.up, !.loads = t.loads + 1,
                  !.conn = [isRetry \in BOOLEAN |-> IF isRetry THEN 0 ELSE 1],
                  !.attempts = 1]

\* The browser loads a page that carries the script.
PageLoad ==
    /\ tab.page = "none"
    /\ tab.up
    /\ tab' = [reload(tab) EXCEPT !.ev = "load"]
    /\ UNCHANGED <<cfgVars, call, peer, hpc, nWatchers, httpVars, startedWatcher, fs,
                   nops, wpc, ri, w, watched, chanVars, errlog, timeVars, cbVars,
                   connVars>>

\* ws.onopen: the handshake of a connecting socket completed; only a socket
\* made by listen(true) has a handler, which reloads the page.
ws_onopen ==
    /\ tab.page = "loaded"
    /\ tab.up
    /\ \E isRetry \in BOOLEAN :
        /\ tab.conn[isRetry] > 0
        /\ isRetry => tab.loads < MaxLoads
        /\ LET opened == [tab EXCEPT !.conn[isRetry] = @ - 1, !.open[isRetry] = @ + 1]
           IN  tab' = [(IF isRetry THEN reload(opened) ELSE opened)
                          EXCEPT !.ev = "open", !.isRetry = isRetry]
    /\ UNCHANGED <<cfgVars, call, peer, hpc, nWatchers, httpVars, startedWatcher, fs,
                   nops, wpc, ri, w, watched, chanVars, errlog, timeVars, cbVars,
                   connVars>>

\* ws.onmessage on an open socket: the server only ever sends "reload".
ws_onmessage ==
    /\ tab.page = "loaded"
    /\ tab.up
    /\ tab.loads < MaxLoads
    /\ \E isRetry \in BOOLEAN, data \in {"reload"} :
        /\ tab.open[isRetry] > 0
        /\ tab' = [(IF data = "reload" THEN reload(tab) ELSE tab)
                       EXCEPT !.ev = "message", !.isRetry = isRetry]
    /\ UNCHANGED <<cfgVars, call, peer, hpc, nWatchers, httpVars, startedWatcher, fs,
                   nops, wpc, ri, w, watched, chanVars, errlog, timeVars, cbVars,
                   connVars>>

\* ws.onclose = retry: an open socket is closed, or a connection attempt
\* failed.
ws_onclose ==
    /\ tab.page = "loaded"
    /\ \E isRetry \in BOOLEAN :
        \/ /\ tab.open[isRetry] > 0
           /\ tab' = [retry([tab EXCEPT !.open[isRetry] = @ - 1])
                          EXCEPT !.ev = "close", !.isRetry = isRetry]
        \/ /\ tab.conn[isRetry] > 0
           /\ tab' = [retry([tab EXCEPT !.conn[isRetry] = @ - 1])
                          EXCEPT !.ev = "close", !.isRetry = isRetry]
    /\ UNCHANGED <<cfgVars, call, peer, hpc, nWatchers, httpVars, startedWatcher, fs,
                   nops, wpc, ri, w, watched, chanVars, errlog, timeVars, cbVars,
                   connVars>>

\* A timer set by retry fires: listen(true).
setTimeout_Fire ==
    /\ tab.page = "loaded"
    /\ tab.timers > 0
    /\ tab.attempts < MaxAttempts
    /\ tab' = [tab EXCEPT !.timers = @ - 1, !.conn[TRUE] = @ + 1,
                          !.attempts = @ + 1, !.ev = "timeout", !.isRetry = TRUE]
    /\ UNCHANGED <<cfgVars, call, peer, hpc, nWatchers, httpVars, startedWatcher, fs,
                   nops, wpc, ri, w, watched, chanVars, errlog, timeVars, cbVars,
                   connVars>>

\* The server is stopped or started again.
ServerUpDown ==
    /\ tab' = [tab EXCEPT !.up = ~@, !.ev = "server"]
    /\ UNCHANGED <<cfgVars, call, peer, hpc, nWatchers, httpVars, startedWatcher, fs,
                   nops, wpc, ri, w, watched, chanVars, errlog, timeVars, cbVars,
                   connVars>>

NextTab ==
    \/ PageLoad
    \/ ServerUpDown
    \/ ws_onopen
    \/ ws_onmessage
    \/ ws_onclose
    \/ setTimeout_Fire

SpecTab == InitWS /\ [][NextTab]_vars

\* ---------------------------------------------------------------- the pure functions
\* expectingDocument(r.Header)
Classify ==
    /\ call.fn = "input"
    /\ "h" \in DOMAIN call
    /\ call' = [fn |-> "expectingDocument", h |-> call.h,
                out |-> expectingDocument(call.h)]
    /\ UNCHANGED <<cfgVars, peer, tab, hpc, nWatchers, httpVars, startedWatcher, fs,
                   nops, wpc, ri, w, watched, chanVars, errlog, timeVars, cbVars,
                   connVars>>

\* insertScriptIntoHTML(body, script)
Insert ==
    /\ call.fn = "input"
    /\ "src" \in DOMAIN call
    /\ LET r == insertScriptIntoHTML(call.src, ExampleScript)
       IN  call' = [fn |-> "insertScriptIntoHTML", src |-> call.src,
                    script |-> ExampleScript, out |-> r.out, panic |-> r.panic]
    /\ UNCHANGED <<cfgVars, peer, tab, hpc, nWatchers, httpVars, startedWatcher, fs,
                   nops, wpc, ri, w, watched, chanVars, errlog, timeVars, cbVars,
                   connVars>>

\* next calls Hijack, Flush or Push on the buffering wrapper.
Forward ==
    /\ call.fn = "input"
    /\ "cap" \in DOMAIN call
    /\ LET r == wrapper_Forward(call.caps, call.cap)
       IN  call' = [fn |-> "wrapper", caps |-> call.caps, cap |-> call.cap,
                    logged |-> r.logged, forwarded |-> r.forwarded,
                    panic |-> r.panic]
    /\ UNCHANGED <<cfgVars, peer, tab, hpc, nWatchers, httpVars, startedWatcher, fs,
                   nops, wpc, ri, w, watched, chanVars, errlog, timeVars, cbVars,
                   connVars>>

\* One call of a pure function on one input.
InitFn ==
    /\ InitState
    /\ directories = <<>>
    /\ onReloadSet = FALSE
    /\ fs = {}
    /\ call \in {[fn |-> "input", h |-> h] : h \in Headers}
                \cup {[fn |-> "input", src |-> b] : b \in Sources}
                \cup {[fn |-> "input", caps |-> wcaps, cap |-> cap] :
                         wcaps \in SUBSET Caps, cap \in {"Hijacker", "Flusher", "Pusher"}}

NextFn ==
    \/ Classify
    \/ Insert
    \/ Forward

SpecFn == InitFn /\ [][NextFn]_vars


\* ---------------------------------------------------------------- properties
\* The watch loop consumes the event at the head of w.Events in this step.
Consumes == events # <<>> /\ events' = Tail(events)

\* The event at the head of w.Events takes the rename/remove case.
HeadIsRenameOrRemove ==
    /\ ~Has(Head(events), "Create")
    /\ ~Has(Head(events), "Write")
    /\ Has(Head(events), "Rename") \/ Has(Head(events), "Remove")

\* A connection's task has returned from the wait queue or has been woken.
Woken(c) == pc[c] \in {"relocked", "woken", "sent"} \/ (pc[c] = "parked" /\ notified[c])

\* C1: one Broadcast wakes every task parked in Wait(); a task is woken
\* only by a Broadcast issued while it is parked, it joins the wait queue
\* un-notified whatever Broadcasts came before, and it leaves the wait queue
\* only when notified.
C1_BroadcastWakesAllParked ==
    [][ /\ nBroadcast' = nBroadcast + 1 =>
              \A c \in Conns : pc[c] = "parked" => notified'[c]
        /\ \A c \in Conns :
              (notified'[c] /\ ~notified[c]) =>
                  (nBroadcast' = nBroadcast + 1 /\ pc[c] = "parked")
        /\ \A c \in Conns :
              (pc'[c] = "parked" /\ pc[c] # "parked") => ~notified'[c]
        /\ \A c \in Conns :
              (pc[c] = "parked" /\ pc'[c] # "parked") => notified[c]
      ]_vars

\* Two tasks parked in Wait() have both been woken by the one Broadcast issued.
C1_Witness ==
    /\ nBroadcast = 1
    /\ \A c \in Conns : pc[c] = "parked" /\ notified[c]

\* C2: once a Broadcast has been issued after a connection's handshake
\* completed, that connection has been woken (and goes on to send "reload").
C2_BroadcastAfterHandshakeWakes ==
    \A c \in Conns : (bcastSince[c] /\ pc[c] # "none") => Woken(c)

\* C3: with OnReload set, every Broadcast is preceded by a completed OnReload
\* call of its own, so no task is woken before OnReload has returned.
C3_OnReloadBeforeBroadcast ==
    onReloadSet =>
        /\ nBroadcast <= nOnReloadDone
        /\ nBroadcast + cb.broadcast = nOnReloadDone
        /\ \A c \in Conns : (Woken(c) \/ wire[c] # <<>>) => nOnReloadDone >= 1

\* OnReload is set, the callback has run once and a woken task has returned
\* from Wait().
C3_Witness ==
    /\ onReloadSet
    /\ nBroadcast = 1
    /\ \E c \in Conns : pc[c] = "woken"

\* C4: on a connection the server writes nothing before Wait() has returned,
\* then the one message "reload", then closes.
C4_SingleShot ==
    \A c \in Conns :
        /\ wire[c] \in {<<>>, <<"reload">>, <<"reload", "close">>}
        /\ pc[c] \in {"serve", "upgraded", "locked", "parked", "relocked", "woken"}
               => wire[c] = <<>>
        /\ pc[c] = "sent" => wire[c] = <<"reload">>
        /\ wire[c] # <<>> => (pc[c] \in {"sent", "none"} /\ bcastSince[c])

\* A connection has been sent "reload" and closed.
C4_Witness == \E c \in Conns : wire[c] = <<"reload", "close">>

\* The reload path is at rest: no event, timer or callback is pending.
AtRest == events = <<>> /\ ~timer.armed /\ cb = NoCallbacks

\* C5: when a file was created in a watched root while a connection was open
\* and the reload it caused has run to completion, the connection has been
\* woken (and goes on to receive "reload").
C5_OpenConnectionIsReloaded ==
    \A c \in Conns : (createdSince[c] /\ pc[c] # "none" /\ AtRest) => Woken(c)

Due == IF timer.armed THEN 1 ELSE 0

\* C6 as stated: the timer fires only a full window after the last consumed
\* create/write event, and the number of reload signals, counting the one
\* still pending, is the number of bursts of consumed create/write events.
C6_OneSignalPerEventBurst ==
    [][ /\ signals' = signals + 1 => quietEv >= Window
        /\ evBursts'.lo <= signals' + Due'
        /\ signals' + Due' <= evBursts'.hi
      ]_vars

\* C6 amended: the timer fires only a full window after the last event that
\* reached debounce, and the number of reload signals, counting the one still
\* pending, is the number of bursts of events that reached debounce.
C6_OneSignalPerDebouncedBurst ==
    [][ /\ signals' = signals + 1 => quiet >= Window
        /\ bursts'.lo <= signals' + Due'
        /\ signals' + Due' <= bursts'.hi
      ]_vars

\* Two debounced events more than a window apart have produced two signals.
C6_Witness ==
    /\ nops = 2
    /\ bursts = [lo |-> 2, hi |-> 2]
    /\ signals = 2
    /\ ~timer.armed

\* C7: consuming a rename or remove event leaves the debounce timer and the
\* reload signals as they are; only the watch set changes.
C7_RenameRemoveLeavesTimer ==
    [][ (Consumes /\ HeadIsRenameOrRemove) =>
            /\ timer' = timer
            /\ UNCHANGED <<signals, cb, nBroadcast, nOnReloadDone, quiet, bursts>>
            /\ UNCHANGED <<fs, wpc, errlog, connVars>>
      ]_vars

\* The two operations issued emptied the tree, so the second was a rename
\* or remove; its event has been consumed, and the timer started by the
\* first one is still pending with its deadline a tick nearer.
C7_Witness ==
    /\ nops = 2
    /\ werrs = 0
    /\ Mutable \cap fs = {}
    /\ events = <<>>
    /\ AbsUi \in watched
    /\ timer.armed
    /\ timer.remaining < Window
    /\ signals = 0

\* C8: after a create event for an existing directory is consumed, that
\* directory is in the watch set.
C8_CreatedDirectoryIsWatched ==
    [][ ( /\ Consumes
          /\ Has(Head(events), "Create")
          /\ IsDir(Head(events).name)
          /\ Head(events).name \in fs ) =>
            Head(events).name \in watched'
      ]_vars

\* C9: after a rename or remove event for P is consumed, the watch set holds
\* neither P nor a path beneath P, and the loop is still running.
C9_RenamedSubtreeIsUnwatched ==
    [][ (Consumes /\ HeadIsRenameOrRemove) =>
            /\ \A q \in watched' : ~IsPrefix(Head(events).name, q)
            /\ wpc' = "loop"
      ]_vars

\* The directories at or beneath a configured root.
ReachableDirs ==
    {p \in fs : IsDir(p) /\ \E i \in 1..Len(directories) : Beneath(directories[i], p)}

MissingRoot ==
    \E i \in 1..Len(directories) : ~Exists(fs, directories[i])

\* C11: when a configured root is missing at start-up, WatchDirectories
\* neither enters the watch loop nor crashes, and when it has returned the
\* failed walk is in the error log.
C11_MissingRootReturns ==
    (MissingRoot /\ nops = 0) =>
        /\ wpc # "loop"
        /\ wpc # "panic"
        /\ wpc = "returned" => "walk" \in errlog

\* C12: once the failure of fsnotify.NewWatcher has been reported, the
\* watcher neither runs the watch loop nor panics.
C12_NewWatcherFailureIsSurvived ==
    "new watcher" \in errlog => (wpc # "loop" /\ wpc # "panic")

\* C13: a failed w.Add on a create event and an error read from w.Errors are
\* logged and skipped: the step leaves the loop running and the watch set and
\* the timer as they were, the loop is never left, and an event consumed
\* after such an error still arms the timer for a full window.
C13_EventErrorsAreSkipped ==
    [][ /\ (Consumes /\ OnEvent(Head(events), watched, fs).err) =>
              /\ "add" \in errlog'
              /\ wpc' = "loop"
              /\ watched' = watched
              /\ timer' = timer
        /\ werrs' < werrs =>
              /\ "watching" \in errlog'
              /\ wpc' = "loop"
              /\ events' = events
              /\ watched' = watched
              /\ timer' = timer
        /\ wpc = "loop" => wpc' = "loop"
        /\ ( /\ Consumes
             /\ errlog \cap {"add", "watching"} # {}
             /\ \/ Has(Head(events), "Write")
                \/ Has(Head(events), "Create") /\ Exists(fs, Dir(Head(events).name)) ) =>
              timer' = [armed |-> TRUE, remaining |-> Window,
                        path |-> Base(Head(events).name)]
      ]_vars

\* An error from w.Errors has been logged and the loop is about to consume a
\* write event that came after it.
C13_Witness ==
    /\ "watching" \in errlog
    /\ wpc = "loop"
    /\ werrs = 0
    /\ events # <<>>
    /\ Has(Head(events), "Write")

\* C14: the wrapper implements exactly the optional interfaces of the sink it
\* wraps, for every set of interfaces and every protocol version.
C14_SameCapabilities ==
    wrap.type # "none" => MethodSet(wrap.type) = sink.caps

\* C15: the wrapper calls WriteHeader on the sink at most once, with the code
\* of the first WriteHeader it received (200 when a Write or ReadFrom came
\* first), and its recorded status does not change once it is set.
C15_StatusForwardedOnce ==
    [][ /\ Wrapped' =>
              /\ Len(sink'.calls) <= 1
              /\ sink'.calls # <<>> =>
                    /\ sink'.calls[1] = ref'.first
                    /\ wrap'.code = ref'.first
        /\ (Wrapped /\ req.phase = "next" /\ wrap.code # 0) =>
              wrap'.code = wrap.code
      ]_vars

\* After WriteHeader(404) and a Write through the wrapper, the sink has the
\* one status 404 and the body.
C15_Witness ==
    /\ Wrapped
    /\ req.calls >= 2
    /\ sink.calls = <<404>>
    /\ wrap.code = 404
    /\ sink.body # <<>>

\* C16: when the script was written to a response for which the handler had
\* set a numeric Content-Length, the Content-Length sent is the handler's
\* value plus the length of the script.
C16_ContentLengthCoversScript ==
    (req.phase = "done" /\ req.injected /\ Atoi(ref.cl).ok) =>
        sink.sent.cl = Itoa(Atoi(ref.cl).val + Len(scriptToInject))

\* C17: with a tee set, the tee holds the bytes the sink accepted from the
\* Write and ReadFrom calls, in order.
C17_TeeMirrorsAcceptedBytes ==
    /\ (Wrapped /\ wrap.hasTee) => wrap.tee = ref.body
    /\ (Wrapped /\ wrap.hasTee /\ req.phase = "next") => wrap.tee = sink.body

\* A ReadFrom went through the tee (its bytes are counted twice) on a
\* response whose Content-Length leaves no room for a later write.
C17_Witness ==
    /\ Wrapped
    /\ req.phase = "next"
    /\ req.calls = 3
    /\ sink.sent.cl = <<"2">>
    /\ wrap.tee = HtmlChunk
    /\ wrap.bytes = 2 * Len(HtmlChunk)

\* The body Handle sniffs: the tee of a wrapped response.
Sniffed == IF Wrapped THEN wrap.tee ELSE sink.body

C19_ScriptAppendedOnce ==
    ( /\ req.phase = "done"
      /\ Wrapped
      /\ ~sink.hijacked
      /\ HasPrefix(ContentType(sink, wrap.tee), TextHTML) ) =>
        sink.body = ref.body \o InjectedScript(Endpoint)

\* C20: a request for the endpoint goes to ServeWS and never to next; any
\* other request goes to next once and never to ServeWS; a ServeWS task is
\* started only by a request for the endpoint.
C20_EndpointRouting ==
    [][ /\ req'.phase # "none" =>
              IF req'.path = Endpoint
              THEN req'.wsCalls = 1 /\ req'.nextCalls = 0
              ELSE req'.wsCalls = 0 /\ req'.nextCalls = 1
        /\ pc' # pc =>
              /\ req'.path = Endpoint
              /\ req'.phase = "ws"
              /\ \E c \in Conns :
                    /\ pc[c] = "none"
                    /\ pc' = [pc EXCEPT ![c] = "serve"]
        /\ (req'.phase = "next" /\ req.phase # "next") => req'.path # Endpoint
      ]_vars

\* A request for the endpoint has been handed to ServeWS.
C20_Witness ==
    /\ req.phase = "ws"
    /\ req.path = Endpoint
    /\ req.nextCalls = 0
    /\ \E c \in Conns : pc[c] = "serve"

\* ---------------------------------------------------------------- expectingDocument
\* C21 as stated: when Sec-Fetch-Dest is present and non-empty,
\* expectingDocument returns true exactly when the value is the string
\* document, whatever Upgrade and Accept say.
C21_DestLiterallyDocument ==
    (call.fn = "expectingDocument" /\ call.h.dest # "")
        => (call.out <=> call.h.dest = "document")

\* C21 (amended): when Sec-Fetch-Dest is present and non-empty,
\* expectingDocument returns true exactly when the value is document in any
\* letter case, whatever Upgrade and Accept say.
C21_DestDecides ==
    (call.fn = "expectingDocument" /\ call.h.dest # "")
        => (call.out <=> call.h.dest \in {"document", "Document"})

\* A request for a document that also carries Upgrade: websocket and
\* Accept: text/css has been classified as a document.
C21_Witness ==
    /\ call.fn = "expectingDocument"
    /\ call.h.dest = "document"
    /\ call.h.upgrade = "websocket"
    /\ call.h.accept = << << <<"text/css">> >> >>
    /\ call.out

\* C22: without Sec-Fetch-Dest, for a request that is neither a WebSocket
\* upgrade nor an event-stream request and has an Accept header,
\* expectingDocument is true iff text/html, application/xhtml+xml or
\* application/xml is a media type anywhere in the list or */* is the very
\* first media type; text/css and text/css,*/*;q=0.1 give false,
\* text/html,*/*;q=0.8 and */* give true.
C22_AcceptDecides ==
    LET h == call.h
        MediaType(item) == TrimSpace(ToLower(item[1]))
        Plain(a) == h.dest = "" /\ h.upgrade = "" /\ h.accept = <<a>>
    IN  call.fn = "expectingDocument" =>
            /\ ( /\ h.dest = ""
                 /\ h.upgrade \notin {"websocket", "WebSocket"}
                 /\ ~AcceptIsEventStream(h)
                 /\ h.accept # <<>> )
                   => (call.out <=>
                         \/ \E i \in 1..Len(h.accept) : \E j \in 1..Len(h.accept[i]) :
                               MediaType(h.accept[i][j]) \in
                                   {"text/html", "application/xhtml+xml", "application/xml"}
                         \/ MediaType(h.accept[1][1]) = "*/*")
            /\ Plain(<< <<"text/css">> >>) => ~call.out
            /\ Plain(<< <<"text/css">>, <<"*/*", "q=0.1">> >>) => ~call.out
            /\ Plain(<< <<"text/html">>, <<"*/*", "q=0.8">> >>) => call.out
            /\ Plain(<< <<"*/*">> >>) => call.out

\* Accept: text/css,*/*;q=0.1 without Sec-Fetch-Dest has been classified as
\* not a document.
C22_Witness ==
    /\ call.fn = "expectingDocument"
    /\ call.h.dest = ""
    /\ call.h.upgrade = ""
    /\ call.h.accept = << << <<"text/css">>, <<"*/*", "q=0.1">> >> >>
    /\ ~call.out

\* ---------------------------------------------------------------- insertScriptIntoHTML
\* C26 as stated: for an input containing </body> the script starts strictly
\* before the first </body> and strictly after every opening <body tag of the
\* input, and is inserted exactly once.
C26_AfterEveryOpeningTag ==
    (call.fn = "insertScriptIntoHTML" /\ Index(call.src, ClosingBody) # -1)
        => LET p == Index(call.out, call.script)
               opens == {j \in 0..(Len(call.src) - 5) :
                            SubSeq(call.src, j + 1, j + 5) = OpeningBody}
           IN  /\ ~call.panic
               /\ p # -1
               /\ p < Index(call.out, ClosingBody)
               /\ \A j \in opens : j + Len(OpeningBody) <= p

\* C26 (amended): for an input containing </body> the script starts strictly
\* before the first </body> and strictly after every opening <body tag that
\* begins before that </body>; it is inserted exactly once and the input's
\* bytes are kept in order around it.
C26_BeforeClosingBody ==
    (call.fn = "insertScriptIntoHTML" /\ Index(call.src, ClosingBody) # -1)
        => LET p == Index(call.out, call.script)
               n == Len(call.script)
               first == Index(call.src, ClosingBody)
               opens == {j \in 0..first : SubSeq(call.src, j + 1, j + 5) = OpeningBody}
               at == {k \in 0..(Len(call.out) - n) :
                         SubSeq(call.out, k + 1, k + n) = call.script}
           IN  /\ ~call.panic
               /\ Cardinality(at) = 1
               /\ p < Index(call.out, ClosingBody)
               /\ \A j \in opens : j + Len(OpeningBody) <= p
               /\ SubSeq(call.out, 1, p) \o SubSeq(call.out, p + n + 1, Len(call.out))
                      = call.src

\* The script has been inserted into "<body></body>".
C26_Witness ==
    /\ call.fn = "insertScriptIntoHTML"
    /\ call.src = OpeningBody \o <<">">> \o ClosingBody
    /\ call.out = OpeningBody \o <<">">> \o ExampleScript \o ClosingBody

\* C27: for an input without </body> but with an opening body tag the script
\* is inserted immediately after the '>' that closes the first opening body
\* tag; "<body><h1>x</h1>" gives "<body><script>S</script><h1>x</h1>".
C27_RightAfterOpeningTag ==
    LET open == Index(call.src, OpeningBody)
        gt == Index(SubSeq(call.src, open + 1, Len(call.src)), <<">">>)
        end == open + gt + 1
    IN  ( /\ call.fn = "insertScriptIntoHTML"
          /\ Index(call.src, ClosingBody) = -1
          /\ open # -1
          /\ gt # -1 )
            => /\ ~call.panic
               /\ call.out = SubSeq(call.src, 1, end) \o call.script
                                 \o SubSeq(call.src, end + 1, Len(call.src))

\* C28: insertScriptIntoHTML never fails, and returns the input unchanged
\* when it finds neither a closing body tag nor a complete opening body tag.
C28_NeverFails ==
    LET open == Index(call.src, OpeningBody)
        gt == Index(SubSeq(call.src, open + 1, Len(call.src)), <<">">>)
    IN  call.fn = "insertScriptIntoHTML"
            => /\ ~call.panic
               /\ (Index(call.src, ClosingBody) = -1 /\ (open = -1 \/ gt = -1))
                      => call.out = call.src

\* ---------------------------------------------------------------- ServeWS: versions and clients that go away
\* C23: a request whose version differs from wsCurrentVersion is reported in
\* the error log and not rejected: ServeWS goes on to the upgrade, and the
\* connection then follows the protocol of any other: nothing is written
\* before a Broadcast, then "reload", then the close.
C23_OldVersionIsServed ==
    /\ [][ /\ ("version" \notin errlog /\ "version" \in errlog')
                => \E c \in Conns : /\ pc[c] = "none"
                                    /\ pc'[c] = "serve"
                                    /\ peer'[c].v # wsCurrentVersion
           /\ \A c \in Conns :
                (pc[c] = "none" /\ pc'[c] = "serve" /\ peer'[c].v # wsCurrentVersion)
                    => "version" \in errlog' ]_vars
    /\ [](\A c \in Conns :
            peer[c].v # wsCurrentVersion =>
                /\ wire[c] \in {<<>>, <<"reload">>, <<"reload", "close">>}
                /\ pc[c] \in PostHandshake \ {"sent"} => wire[c] = <<>>
                /\ pc[c] = "sent" => wire[c] = <<"reload">>
                /\ wire[c] # <<>> => bcastSince[c])

\* A client with version 0 has been reported, upgraded, sent "reload" and
\* closed.
C23_Witness ==
    \E c \in Conns :
        /\ peer[c].v = "0"
        /\ "version" \in errlog
        /\ wire[c] = <<"reload", "close">>

\* C24: a task blocked in Wait() is unblocked when its client closes the
\* connection, so the number of tasks blocked in Wait() never exceeds the
\* number of open connections.
C24_BlockedTasksHaveOpenConnections ==
    Cardinality({c \in Conns : pc[c] = "parked"})
        <= Cardinality({c \in Conns : pc[c] \in PostHandshake /\ ~peer[c].closed})

\* ---------------------------------------------------------------- Handle called concurrently
\* C25: however many tasks call Handle, at most one WatchDirectories task is
\* started.
C25_AtMostOneWatcher == nWatchers <= 1

C29_ScriptReconnects ==
    /\ [](tab.page = "loaded" =>
            tab.conn[FALSE] + tab.conn[TRUE] + tab.open[FALSE] + tab.open[TRUE]
                + tab.timers = 1)
    /\ [][ /\ tab'.loads = tab.loads + 1
                => /\ tab'.conn = [isRetry \in BOOLEAN |-> IF isRetry THEN 0 ELSE 1]
                   /\ tab'.open = [isRetry \in BOOLEAN |-> 0]
                   /\ tab'.timers = 0
                   /\ \/ tab'.ev = "load"
                      \/ tab'.ev = "message"
                      \/ tab'.ev = "open" /\ tab'.isRetry
           /\ (tab'.ev = "message" /\ tab' # tab) => tab'.loads = tab.loads + 1
           /\ (tab'.ev = "open" /\ tab' # tab)
                => IF tab'.isRetry
                   THEN tab'.loads = tab.loads + 1
                   ELSE tab'.loads = tab.loads /\ tab'.open[FALSE] = tab.open[FALSE] + 1
           /\ (tab'.ev = "close" /\ tab' # tab)
                => /\ tab'.timers = tab.timers + 1
                   /\ tab'.loads = tab.loads
           /\ (tab'.timers < tab.timers /\ tab'.loads = tab.loads)
                => /\ tab'.timers = tab.timers - 1
                   /\ tab'.conn[TRUE] = tab.conn[TRUE] + 1 ]_vars

\* A page whose first connection was closed has made a second attempt after
\* a failed one, and that attempt opened and reloaded the page.
C29_Witness ==
    /\ tab.page = "loaded"
    /\ tab.loads = 2
    /\ tab.ev = "open"
    /\ tab.isRetry
    /\ tab.conn[FALSE] = 1

C32_FlushMarksHeaderSent ==
    /\ []((Wrapped /\ sink.flushed) => wrap.wroteHeader)
    /\ [][(Wrapped /\ sink.flushed /\ req.phase = "next")
            => (sink'.calls = sink.calls /\ wrap'.code = wrap.code)]_vars

\* After a Flush as the first call, WriteHeader(404) and a Write were made:
\* no WriteHeader reached the sink and no status was recorded.
C32_Witness ==
    /\ Wrapped
    /\ sink.flushed
    /\ ref.first = 404
    /\ ref.body # <<>>
    /\ sink.calls = <<>>
    /\ wrap.code = 0

\* C33: after the handler has hijacked the connection through the wrapper,
\* Handle writes nothing to the sink once the handler has returned: no
\* script, whatever header the handler had set.
C33_NoWriteAfterHijack ==
    (Wrapped /\ sink.hijacked /\ req.phase = "done") => ~req.injected

\* C34: Hijack, Flush or Push on the buffering wrapper over a sink without
\* that capability is logged and fails as an ordinary error; it does not
\* panic.
C34_MissingCapabilityIsAnError ==
    call.fn = "wrapper" =>
        /\ ~call.panic
        /\ call.cap \notin call.caps => call.logged

\* C35: every optional method the chosen wrapper variant exposes is backed by
\* the sink, for every capability combination and protocol version, so no
\* unchecked type assertion in a wrapper method fails.
C35_AssertionsNeverFail ==
    /\ Wrapped => MethodSet(wrap.type) \subseteq sink.caps
    /\ \A cap \in Caps : ~(Implements(cap) /\ AssertionFails(cap))
    /\ req.phase # "panic"

C35_Witness ==
    /\ Wrapped
    /\ req.phase = "done"
    /\ sink.proto = 2
    /\ sink.pushed
    /\ sink.flushed

\* ---------------------------------------------------------------- the callback and the events

\* C36: at most one execution of the reload callback (OnReload, then
\* Broadcast) is in progress at any time.
C36_CallbackRunsAlone ==
    onReloadSet => cb.onreload + cb.broadcast <= 1

\* C37: a task that called Wait() while the first callback was running
\* OnReload is woken by the Broadcast of that callback.
C37_JoinedDuringOnReloadIsWoken ==
    [][(nBroadcast' = nBroadcast + 1 /\ signals = 1) =>
           \A c \in Conns : pc[c] \in {"locked", "parked"} => notified'[c]]_vars

\* C38: no reload signal is spurious. Every Broadcast belongs to a run of the
\* callback, a run starts only from a pending timer and leaves none pending,
\* and the timer is started or reset only by the step that consumes a create
\* or write event: rename, remove and watcher-error events never do so.
C38_NoSpuriousSignal ==
    /\ [](nBroadcast + cb.onreload + cb.broadcast = signals)
    /\ [][ /\ signals' = signals + 1 => (timer.armed /\ ~timer'.armed)
           /\ (timer'.armed /\ (~timer.armed \/ timer'.remaining > timer.remaining))
                 => /\ Consumes
                    /\ Has(Head(events), "Create") \/ Has(Head(events), "Write")
         ]_vars

\* A created file has been signalled once; the rename or remove that
\* followed has been consumed and has left no timer and no second signal.
C38_Witness ==
    /\ nops = 2
    /\ Mutable \cap fs = {}
    /\ events = <<>>
    /\ ~timer.armed
    /\ cb = NoCallbacks
    /\ signals = 1
    /\ nBroadcast = 1

\* C39: start-up is all-or-nothing over the roots. Once the enumeration of a
\* root has failed, WatchDirectories has returned with the watcher closed, no
\* directory of any root is watched, and no callback run or Broadcast
\* follows.
C39_StartupAllOrNothing ==
    "walk" \in errlog =>
        /\ wpc = "returned"
        /\ w = "closed"
        /\ watched = {}
        /\ signals = 0
        /\ nBroadcast = 0

\* ---------------------------------------------------------------- Content-Length

\* C40: the Content-Length adjustment is applied at most once per response:
\* the Content-Length of the header map is a value the handler set or that
\* value plus the length of the script, never that value plus a multiple of
\* it.
C40_AdjustedAtMostOnce ==
    Wrapped =>
        sink.header.cl \in {<<>>, <<"2">>, <<"x">>, Itoa(2 + Len(scriptToInject))}


====
